---- MODULE Spec2Model ----
(***************************************************************************)
(* DSD price book: the cost-change workflow of dsd/views.py and            *)
(* dsd/models.py (submit, approve, reject, apply, export) over the         *)
(* Item, PendingCostChange, ChangeHistory and BRDataExportLog tables.      *)
(*                                                                         *)
(* Every view is a sequence of database statements.  The project opens no  *)
(* transaction (no transaction.atomic anywhere in the sources), so each    *)
(* query and each save() commits on its own, and statements of different   *)
(* requests interleave.  Each statement is one action; a request worker is *)
(* a thread with a program counter pc[t] and its in-memory objects loc[t]. *)
(*                                                                         *)
(* Money is held in whole cents, dates as day numbers, margins as exact    *)
(* fractions <<numerator, denominator>>.  An optional value (a nullable    *)
(* column, Python's None) is a sequence of length at most one.             *)
(***************************************************************************)
EXTENDS Integers, Sequences, FiniteSets, TLC

\* ------------------------------------------------------------------ bounds
\* Rows the PendingCostChange table may hold.
MaxChanges == 2
\* Rows the ChangeHistory table may hold.
MaxHistory == 2
\* Rows the BRDataExportLog table may hold.
MaxLog == 2
\* Requests the interleaved workers start in one run.
MaxRequests == 3
\* Requests the single worker serves in one run.
MaxSeqRequests == 5
\* Largest unit cost, in cents (or thirds of a cent), given to suggest_retail.
MaxUnitCost == 24
\* Longest raw UPC given to normalize_upc.
MaxUpcLen == 3
\* Requests and import runs the single worker serves over the odd item rows.
MaxRowRequests == 4
\* Requests the two workers serve between them when a change is submitted,
\* approved, and applied or exported.
MaxApplyRequests == 4
\* Requests the single worker serves when two changes of an item are applied.
MaxChainRequests == 6
\* Import runs and requests the single worker serves on a new database.
MaxImportRequests == 5
\* Requests and deletions the single worker serves.
MaxDeleteRequests == 4

\* ------------------------------------------------------------------ values
None == <<>>
Some(v) == <<v>>
IsNone(x) == x = <<>>
Val(x) == x[1]

Threads == {1, 2}
ItemIds == {1, 2}
ChangeIds == 1..MaxChanges

\* The POST forms a submit request may carry: a cost increase effective today
\* (day 2), an unchanged cost effective tomorrow, and an overdue cost increase
\* with an allowance, a buyer's retail and a note.
Forms ==
    { [new_case_cost |-> "11.00", new_allowance |-> "", effective_date |-> 2,
       approved_retail |-> None, notes |-> ""],
      [new_case_cost |-> "10.00", new_allowance |-> "0", effective_date |-> 3,
       approved_retail |-> None, notes |-> "hold"],
      [new_case_cost |-> "11.00", new_allowance |-> "1.00", effective_date |-> 1,
       approved_retail |-> Some(399), notes |-> "rush"] }

\* POST forms whose cost or allowance is not a number, and one with a buyer's
\* retail of 0.00
OddForms ==
    { [new_case_cost |-> "abc", new_allowance |-> "0", effective_date |-> 2,
       approved_retail |-> None, notes |-> ""],
      [new_case_cost |-> "11.00", new_allowance |-> "n/a", effective_date |-> 2,
       approved_retail |-> None, notes |-> ""],
      [new_case_cost |-> "", new_allowance |-> "", effective_date |-> 2,
       approved_retail |-> None, notes |-> ""],
      [new_case_cost |-> "11.00", new_allowance |-> "", effective_date |-> 2,
       approved_retail |-> Some(0), notes |-> "free"] }

\* float(text) in cents, None when float raises ValueError
float(text) ==
    CASE text = "11.00" -> Some(1100)
      [] text = "10.00" -> Some(1000)
      [] text = "1.00" -> Some(100)
      [] text = "0" -> Some(0)
      [] OTHER -> None

\* cost_change_entry, lines 205-206: float(new_case_cost) and
\* float(new_allowance or 0)
CostOf(post) == float(post.new_case_cost)

AllowanceOf(post) == IF post.new_allowance = "" THEN Some(0)
                     ELSE float(post.new_allowance)

\* the form with its cost and allowance as the numbers float returns
Parsed(post) == [post EXCEPT !.new_case_cost = Val(CostOf(post)),
                             !.new_allowance = Val(AllowanceOf(post))]

\* approved_retail of an approve request
RetailOverrides == {None, Some(399)}

\* with an override of 0.00
OddOverrides == RetailOverrides \cup {Some(0)}

\* Vendor.target_margin as the bulk import sets it: Decimal("0.2800")
TargetMargin == <<28, 100>>

\* suggest_retail, lines 70-77: theoretical = unit_cost / (1 - margin) and
\* theoretical_cents = int(theoretical * 100), for the unit cost un/ud cents
\* and the margin m[1]/m[2]
theoretical_cents(un, ud, m) == (un * m[2]) \div (ud * (m[2] - m[1]))

\* faulty variant of band: a remainder of 9 stays in its ten-cent band
band_NoCarry(cents) == cents - (cents % 10) + 8

\* suggest_retail, lines 80-87: the band step, to the 8 of the ten-cent band
\* for a remainder up to 8 and to the 8 of the next band for a remainder of 9
band(cents) ==
    LET remainder == cents % 10 IN
    IF remainder <= 8
    THEN cents - remainder + 8
    ELSE cents - remainder + 18

\* faulty variant of suggest_retail: the comparison of the final correction
\* is the wrong way round
suggest_retail_FlippedCorrection(un, ud, m) ==
    IF m[1] <= 0 \/ m[1] >= m[2] THEN None
    ELSE IF un <= 0 THEN None
    ELSE LET cents == theoretical_cents(un, ud, m)
             banded == band(cents)
             suggested_cents == IF banded > cents
                                THEN banded + 10 ELSE banded
         IN  Some(suggested_cents)

\* ------------------------------------------------------------ pricing math
\* suggest_retail(new_unit_cost, current_margin): the unit cost is un/ud cents,
\* the margin m[1]/m[2] (ud > 0, m[2] > 0).  None when the margin is not in
\* (0,1) or the unit cost is not positive.
suggest_retail(un, ud, m) ==
    IF m[1] <= 0 \/ m[1] >= m[2] THEN None
    ELSE IF un <= 0 THEN None
    ELSE LET cents == theoretical_cents(un, ud, m)
             banded == band(cents)
             suggested_cents == IF banded < cents
                                THEN banded + 10 ELSE banded
         IN  Some(suggested_cents)

\* faulty variant of suggest_retail_of: a missing margin is taken as the
\* target margin
suggest_retail_of_Default(new_unit_cost, current_margin) ==
    IF IsNone(new_unit_cost) THEN None
    ELSE suggest_retail(Val(new_unit_cost)[1], Val(new_unit_cost)[2],
                        IF IsNone(current_margin) THEN TargetMargin
                        ELSE Val(current_margin))

\* suggest_retail with inputs that may be None (lines 58-59): the unit cost
\* is None or a fraction <<un, ud>> of cents, the margin None or a fraction
suggest_retail_of(new_unit_cost, current_margin) ==
    IF IsNone(new_unit_cost) \/ IsNone(current_margin) THEN None
    ELSE suggest_retail(Val(new_unit_cost)[1], Val(new_unit_cost)[2],
                        Val(current_margin))

\* ------------------------------------------------------------------- Item
net_case_cost(it) == it.case_cost - it.allowance

\* faulty variant of unit_cost: the division is done whatever case_pack is
unit_cost_Unguarded(it) == Some(<<net_case_cost(it), it.case_pack>>)

\* Item.unit_cost as the fraction <<net, case_pack>> of cents, None when
\* case_pack is 0 or negative.
unit_cost(it) ==
    IF it.case_pack # 0 /\ it.case_pack > 0
    THEN Some(<<net_case_cost(it), it.case_pack>>)
    ELSE None

\* faulty variant of margin: the markup on cost, (retail - unit_cost) / unit_cost
margin_Markup(it) ==
    IF ~IsNone(it.retail_price) /\ Val(it.retail_price) # 0
       /\ Val(it.retail_price) > 0 /\ ~IsNone(unit_cost(it))
    THEN Some(<<Val(it.retail_price) * it.case_pack - net_case_cost(it),
                net_case_cost(it)>>)
    ELSE None

\* Item.margin = (retail - unit_cost) / retail
margin(it) ==
    IF ~IsNone(it.retail_price) /\ Val(it.retail_price) # 0
       /\ Val(it.retail_price) > 0 /\ ~IsNone(unit_cost(it))
    THEN Some(<<Val(it.retail_price) * it.case_pack - net_case_cost(it),
                Val(it.retail_price) * it.case_pack>>)
    ELSE None

\* --------------------------------------------------- PendingCostChange
\* The calculated properties of a change row, read with its item.  A
\* quotient is the fraction <<dividend, divisor>>; a divisor of 0 is the
\* division Python refuses with ZeroDivisionError.
new_net_case_cost(row) == row.new_case_cost - row.new_allowance

\* PendingCostChange.new_unit_cost
new_unit_cost(row, item) ==
    IF item.case_pack > 0
    THEN Some(<<new_net_case_cost(row), item.case_pack>>)
    ELSE None

\* PendingCostChange.cost_change_amount: new unit cost less old unit cost
cost_change_amount(row, item) ==
    IF item.case_pack > 0 /\ ~IsNone(new_unit_cost(row, item))
    THEN Some(<<new_net_case_cost(row) - (row.prev_case_cost - row.prev_allowance),
                item.case_pack>>)
    ELSE None

\* PendingCostChange.cost_change_pct: the change over the old unit cost, in
\* hundredths
cost_change_pct(row, item) ==
    IF ~IsNone(cost_change_amount(row, item)) /\ row.prev_case_cost # 0
       /\ (row.prev_case_cost - row.prev_allowance) * item.case_pack > 0
    THEN Some(<<100 * Val(cost_change_amount(row, item))[1],
                row.prev_case_cost - row.prev_allowance>>)
    ELSE None

\* A Decimal written to a DecimalField(max_digits=5, decimal_places=4): the
\* value in ten-thousandths, rounded half to even.
Quantize4(m) ==
    LET n == m[1] * 10000
        d == m[2]
        q == (2 * n + d) \div (2 * d)
    IN  IF (2 * n + d) % (2 * d) = 0 /\ q % 2 = 1 THEN q - 1 ELSE q

\* The column holds five digits: a margin of 10 or more (or -10 or less)
\* cannot be written and the save raises.
FitsMargin(m) == IsNone(m) \/ (Quantize4(Val(m)) < 100000 /\ Quantize4(Val(m)) > -100000)

StoredMargin(m) == IF IsNone(m) THEN None ELSE Some(Quantize4(Val(m)))

\* calculate_margin(retail_price, unit_cost): the margin in ten-thousandths
\* for a retail in cents and the unit cost un/ud cents; None when either is
\* absent or zero or the retail is not positive.
calculate_margin(retail_price, un, ud) ==
    IF IsNone(retail_price) \/ Val(retail_price) = 0 \/ un = 0 THEN None
    ELSE IF Val(retail_price) <= 0 THEN None
    ELSE Some(Quantize4(<<Val(retail_price) * ud - un, Val(retail_price) * ud>>))

\* ---------------------------------------------------------------------- UPC
\* a string is a sequence of characters
Digits == {"0", "1", "2", "3", "4", "5", "6", "7", "8", "9"}

IsDigit(ch) == ch \in Digits

\* faulty variant of normalize_upc: only the first non-digit is removed
\* (re.sub with count=1)
normalize_upc_FirstOnly(raw_upc) ==
    IF IsNone(raw_upc) THEN None
    ELSE LET str == Val(raw_upc)
             bad == {k \in 1..Len(str) : ~IsDigit(str[k])}
             first == CHOOSE k \in bad : \A j \in bad : k <= j
             cleaned == IF bad = {} THEN str
                        ELSE SubSeq(str, 1, first - 1) \o SubSeq(str, first + 1, Len(str))
         IN  IF cleaned = <<>> THEN None ELSE Some(cleaned)

\* normalize_upc(raw_upc): re.sub(r'\D', '', str(raw_upc)), None for None and
\* for a result that is empty.
normalize_upc(raw_upc) ==
    IF IsNone(raw_upc) THEN None
    ELSE LET cleaned == SelectSeq(Val(raw_upc), IsDigit)
         IN  IF cleaned = <<>> THEN None ELSE Some(cleaned)

\* ------------------------------------------------------------------ state
VARIABLES
    items,          \* dsd_item: ItemIds -> row
    changes,        \* dsd_pending_cost_change: rows in id order, id = index
    history,        \* dsd_change_history: rows in insertion order
    exportLog,      \* dsd_brdata_export_log: rows in insertion order
    today,          \* timezone.now().date(): the model covers one day
    pc,             \* per worker: the statement it executes next
    loc,            \* per worker: the request and the objects it has loaded
    resp,           \* per worker: <<view, item or change id, outcome>> of
                    \* its last request
    budget,         \* requests that may still start
    itemWrittenBy,  \* ghost: ids of the changes whose apply has saved the item
    wf,             \* ghost: per change, the requests that have written it,
                    \* in order: "submit", "submitOv" (with a buyer's retail),
                    \* "approve", "approveOv", "reject", "apply"
    calc,           \* a call of a function of utils/pricing.py: its name, its
                    \* arguments, the results so far
    org             \* dsd_vendor and dsd_link_group: the vendor codes, and for
                    \* each link group its vendor

vars == <<items, changes, history, exportLog, today, pc, loc, resp,
          budget, itemWrittenBy, wf, calc, org>>

db == <<items, changes, history, exportLog>>

\* request.user of the request worker t serves
User(t) == "buyer"

NoLoc == [post |-> None, itemId |-> None, item |-> None, change |-> None,
          today |-> None, rows |-> <<>>, idx |-> 0, logStart |-> 0]

Item1 == [vendor |-> "ACME", link_group |-> Some(1),
          case_cost |-> 1000, allowance |-> 0, case_pack |-> 4,
          retail_price |-> Some(348),
          last_cost_change |-> None, last_price_change |-> None]

Item2 == [vendor |-> "ACME", link_group |-> None,
          case_cost |-> 1000, allowance |-> 0, case_pack |-> 4,
          retail_price |-> Some(200),
          last_cost_change |-> None, last_price_change |-> None]

\* one vendor with one link group
Org1 == [vendors |-> {"ACME"}, link_groups |-> (1 :> "ACME")]

\* Item rows the schema admits besides the two above: a retail equal to the
\* unit cost (margin exactly 0), no retail, a case_pack of 0 and a negative
\* case_pack (case_pack is an IntegerField without a validator).
ItemZeroMargin == [Item1 EXCEPT !.retail_price = Some(250)]

ItemNoRetail == [Item1 EXCEPT !.retail_price = None]

ItemNoPack == [Item1 EXCEPT !.case_pack = 0]

ItemNegPack == [Item1 EXCEPT !.case_pack = 0 - 4]

ItemRows == {Item1, Item2, ItemZeroMargin, ItemNoRetail, ItemNoPack, ItemNegPack}

\* no call of a pricing function is under way
NoCall == [fn |-> "none", arg |-> <<>>, out |-> <<>>, step |-> 0]

InitDb ==
    /\ items = (1 :> Item1) @@ (2 :> Item2)
    /\ calc = NoCall
    /\ org = Org1
    /\ changes = <<>>
    /\ history = <<>>
    /\ exportLog = <<>>
    /\ today = 2
    /\ pc = [t \in Threads |-> "idle"]
    /\ loc = [t \in Threads |-> NoLoc]
    /\ resp = [t \in Threads |-> <<"none", 0, "none">>]
    /\ itemWrittenBy = {}
    /\ wf = [c \in ChangeIds |-> <<>>]

Init == InitDb /\ budget = MaxRequests

InitSeq == InitDb /\ budget = MaxSeqRequests

\* ----------------------------------------------------------------- helpers
Exists(c) == c \in 1..Len(changes)

\* the Item table has a row for i
ItemExists(i) == i \in DOMAIN items

\* PendingCostChange.objects.filter(item=item, status='PENDING')
PendingIn(table, i) == {c \in 1..Len(table) :
                          table[c].item = i /\ table[c].status = "PENDING"}

PendingOf(i) == PendingIn(changes, i)

\* faulty variant of FirstPending: the query filters on the wrong status
FirstPending_WrongStatus(i) ==
    {c \in 1..Len(changes) : changes[c].item = i /\ changes[c].status = "APPROVED"}

\* .first() under Meta.ordering = ['effective_date', 'vendor_code']: a row of
\* the least effective_date; the database picks among equal ones.
FirstPending(i) ==
    {c \in PendingOf(i) :
        \A d \in PendingOf(i) : changes[c].effective_date <= changes[d].effective_date}

\* the request is over: the worker forgets its objects
Done(t, view, target, r) ==
    /\ pc' = [pc EXCEPT ![t] = "idle"]
    /\ loc' = [loc EXCEPT ![t] = NoLoc]
    /\ resp' = [resp EXCEPT ![t] = <<view, target, r>>]

\* ghost: a request has saved row c
Wrote(c, token) == wf' = [wf EXCEPT ![c] = Append(@, token)]

SubmitToken(post) == IF IsNone(post.approved_retail) THEN "submit" ELSE "submitOv"

Goto(t, label) == pc' = [pc EXCEPT ![t] = label]

\* a request starts: it takes one of the requests left, and its response is
\* yet to come
Start(t) ==
    /\ pc[t] = "idle"
    /\ budget > 0
    /\ budget' = budget - 1

Pending(t) == resp' = [resp EXCEPT ![t] = <<"none", 0, "none">>]

\* ------------------------------------------------------------------ submit
\* cost_change_entry, line 191: item = get_object_or_404(Item, ...), with the
\* POST data the request carries.
SubmitLoad(t, i, post) ==
    /\ Start(t)
    /\ IF ~ItemExists(i)
       THEN Done(t, "submit", i, "404")
       ELSE /\ loc' = [loc EXCEPT ![t] =
                         [NoLoc EXCEPT !.itemId = Some(i), !.item = Some(items[i]),
                                       !.post = Some(post)]]
            /\ Goto(t, "submit_existing")
            /\ Pending(t)
    /\ UNCHANGED <<db, today, calc, org, itemWrittenBy, wf>>

SubmitLoadItem(t, i) == \E post \in Forms : SubmitLoad(t, i, post)

\* lines 194-195: existing = PendingCostChange.objects.filter(...).first()
SubmitLoadExisting(t) ==
    /\ pc[t] = "submit_existing"
    /\ LET i == Val(loc[t].itemId) IN
       IF FirstPending(i) = {}
       THEN loc' = [loc EXCEPT ![t].change = None]
       ELSE \E c \in FirstPending(i) :
               loc' = [loc EXCEPT ![t].change = Some([id |-> c, row |-> changes[c]])]
    /\ Goto(t, "submit_save")
    /\ UNCHANGED <<db, today, calc, org, resp, budget, itemWrittenBy, wf>>

\* faulty variant of BuyerRetail: the buyer's retail is dropped
BuyerRetail_Suggested(approved_retail, suggested) == suggested

\* cost_change_entry, line 228: approved_retail or suggested
BuyerRetail(approved_retail, suggested) ==
    IF ~IsNone(approved_retail) THEN approved_retail ELSE suggested

\* faulty variant of SubmitRow: an update keeps the snapshot the first submit took
SubmitRow_KeepSnapshot(t, post, item, existing) ==
    LET net == post.new_case_cost - post.new_allowance
        current_margin == IF ~IsNone(margin(item)) /\ Val(margin(item))[1] # 0
                          THEN Val(margin(item)) ELSE TargetMargin
        suggested == IF item.case_pack < 0
                     THEN suggest_retail(0 - net, 0 - item.case_pack, current_margin)
                     ELSE suggest_retail(net, item.case_pack, current_margin)
        old == IF IsNone(existing)
               THEN [item |-> 0, prev_case_cost |-> item.case_cost,
                     prev_allowance |-> item.allowance,
                     prev_retail |-> item.retail_price,
                     prev_margin |-> StoredMargin(margin(item)),
                     approved_by |-> None, approved_at |-> None,
                     applied_at |-> None]
               ELSE Val(existing).row
    IN  [item |-> old.item,
         new_case_cost |-> post.new_case_cost,
         new_allowance |-> post.new_allowance,
         effective_date |-> post.effective_date,
         suggested_retail |-> suggested,
         approved_retail |-> BuyerRetail(post.approved_retail, suggested),
         prev_case_cost |-> old.prev_case_cost,
         prev_allowance |-> old.prev_allowance,
         prev_retail |-> old.prev_retail,
         prev_margin |-> old.prev_margin,
         status |-> "PENDING",
         change_source |-> "MANUAL",
         submitted_by |-> User(t),
         approved_by |-> old.approved_by,
         approved_at |-> old.approved_at,
         applied_at |-> old.applied_at,
         notes |-> post.notes]

\* lines 204-237: the row the view builds from the POST data, the loaded item
\* and the existing row (a new row when there is none).
SubmitRow(t, post, item, existing) ==
    LET net == post.new_case_cost - post.new_allowance
        current_margin == IF ~IsNone(margin(item)) /\ Val(margin(item))[1] # 0
                          THEN Val(margin(item)) ELSE TargetMargin
        suggested == IF item.case_pack < 0
                     THEN suggest_retail(0 - net, 0 - item.case_pack, current_margin)
                     ELSE suggest_retail(net, item.case_pack, current_margin)
        base == IF IsNone(existing)
                THEN [item |-> 0, approved_by |-> None, approved_at |-> None,
                      applied_at |-> None]
                ELSE [item |-> Val(existing).row.item,
                      approved_by |-> Val(existing).row.approved_by,
                      approved_at |-> Val(existing).row.approved_at,
                      applied_at |-> Val(existing).row.applied_at]
    IN  [item |-> base.item,
         new_case_cost |-> post.new_case_cost,
         new_allowance |-> post.new_allowance,
         effective_date |-> post.effective_date,
         suggested_retail |-> suggested,
         approved_retail |-> BuyerRetail(post.approved_retail, suggested),
         prev_case_cost |-> item.case_cost,
         prev_allowance |-> item.allowance,
         prev_retail |-> item.retail_price,
         prev_margin |-> StoredMargin(margin(item)),
         status |-> "PENDING",
         change_source |-> "MANUAL",
         submitted_by |-> User(t),
         approved_by |-> base.approved_by,
         approved_at |-> base.approved_at,
         applied_at |-> base.applied_at,
         notes |-> post.notes]

\* lines 197-247: build the row and change.save().  A cost or allowance that
\* float rejects raises ValueError, which the view reports ("Invalid data")
\* before it shows the form again.  Dividing by a case_pack of 0 raises
\* ZeroDivisionError and a margin the prev_margin column cannot hold raises
\* on save; neither is caught, and nothing is written.
SubmitSave(t) ==
    /\ pc[t] = "submit_save"
    /\ LET post == Val(loc[t].post)
           item == Val(loc[t].item)
           existing == loc[t].change
           row == SubmitRow(t, Parsed(post), item, existing)
       IN  IF IsNone(CostOf(post)) \/ IsNone(AllowanceOf(post))
           THEN /\ Done(t, "submit", Val(loc[t].itemId), "invalid")
                /\ UNCHANGED <<db, wf>>
           ELSE IF item.case_pack = 0 \/ ~FitsMargin(margin(item))
           THEN /\ Done(t, "submit", Val(loc[t].itemId), "500")
                /\ UNCHANGED <<db, wf>>
           ELSE IF ~IsNone(existing)
           THEN /\ changes' = [changes EXCEPT ![Val(existing).id] = row]
                /\ Wrote(Val(existing).id, SubmitToken(post))
                /\ Done(t, "submit", Val(loc[t].itemId), "ok")
                /\ UNCHANGED <<items, history, exportLog>>
           ELSE /\ Len(changes) < MaxChanges
                /\ changes' = Append(changes,
                                 [row EXCEPT !.item = Val(loc[t].itemId)])
                /\ Wrote(Len(changes) + 1, SubmitToken(post))
                /\ Done(t, "submit", Val(loc[t].itemId), "ok")
                /\ UNCHANGED <<items, history, exportLog>>
    /\ UNCHANGED <<today, calc, org, budget, itemWrittenBy>>

\* --------------------------------------------------------- approve / reject
\* faulty variant of GetChangeOr404: the lookup is by id alone
GetChangeOr404_AnyStatus(c, status) ==
    IF Exists(c) THEN Some([id |-> c, row |-> changes[c]]) ELSE None

\* get_object_or_404(PendingCostChange, id=change_id, status=status): the row
\* of that id when it is in that status, else nothing (Http404).
GetChangeOr404(c, status) ==
    IF Exists(c) /\ changes[c].status = status
    THEN Some([id |-> c, row |-> changes[c]])
    ELSE None

\* approve_change, line 270
ApproveLoad(t, c) ==
    /\ Start(t)
    /\ LET got == GetChangeOr404(c, "PENDING") IN
       IF IsNone(got)
       THEN /\ Done(t, "approve", c, "404")
       ELSE /\ loc' = [loc EXCEPT ![t] = [NoLoc EXCEPT !.change = got]]
            /\ Goto(t, "approve_post")
            /\ Pending(t)
    /\ UNCHANGED <<db, today, calc, org, itemWrittenBy, wf>>

\* faulty variant of approve: the override is ignored
approve_IgnoreOverride(row, user, retail_override, now) ==
    [row EXCEPT !.status = "APPROVED",
                !.approved_by = Some(user),
                !.approved_at = Some(now),
                !.approved_retail =
                    IF IsNone(row.approved_retail) THEN row.suggested_retail
                    ELSE row.approved_retail]

\* PendingCostChange.approve(user, retail_override), the row before save().
\* The view passes the POST string or None (retail_override or None): an
\* override Some(v) is a non-empty string that spells v, which Python takes
\* as true whatever v is, 0.00 included.
approve(row, user, retail_override, now) ==
    [row EXCEPT !.status = "APPROVED",
                !.approved_by = Some(user),
                !.approved_at = Some(now),
                !.approved_retail =
                    IF ~IsNone(retail_override) THEN retail_override
                    ELSE IF IsNone(row.approved_retail) THEN row.suggested_retail
                    ELSE row.approved_retail]

\* approve_change, lines 276-284: action == 'approve'; save() writes every
\* column of the loaded row.
ApproveWith(t, ov) ==
    /\ pc[t] = "approve_post"
    /\ LET ch == Val(loc[t].change) IN
          /\ changes' = [changes EXCEPT ![ch.id] = approve(ch.row, User(t), ov, today)]
          /\ Wrote(ch.id, IF IsNone(ov) THEN "approve" ELSE "approveOv")
    /\ Done(t, "approve", Val(loc[t].change).id, "ok")
    /\ UNCHANGED <<items, history, exportLog, today, calc, org, budget, itemWrittenBy>>

ApproveSave(t) == \E ov \in RetailOverrides : ApproveWith(t, ov)

\* faulty variant of reject: the buyer's retail is cleared as well
reject_ClearRetail(row, user, now) ==
    [row EXCEPT !.status = "REJECTED",
                !.approved_by = Some(user),
                !.approved_at = Some(now),
                !.approved_retail = None]

\* approve_change, lines 285-289: the row a reject saves
reject(row, user, now) ==
    [row EXCEPT !.status = "REJECTED",
                !.approved_by = Some(user),
                !.approved_at = Some(now)]

\* approve_change, lines 285-293: action == 'reject'
RejectSave(t) ==
    /\ pc[t] = "approve_post"
    /\ LET ch == Val(loc[t].change) IN
          /\ changes' = [changes EXCEPT ![ch.id] = reject(ch.row, User(t), today)]
          /\ Wrote(ch.id, "reject")
    /\ Done(t, "reject", Val(loc[t].change).id, "ok")
    /\ UNCHANGED <<items, history, exportLog, today, calc, org, budget, itemWrittenBy>>

\* -------------------------------------------------------------------- apply
\* faulty variant of ApplyLoad: the view loads the change whatever its status and
\* goes on to write
ApplyLoad_AnyStatus(t, c) ==
    /\ Start(t)
    /\ IF ~Exists(c)
       THEN /\ Done(t, "apply", c, "404")
       ELSE /\ loc' = [loc EXCEPT ![t] =
                         [NoLoc EXCEPT !.change = Some([id |-> c, row |-> changes[c]]),
                                       !.item = Some(items[changes[c].item]),
                                       !.itemId = Some(changes[c].item)]]
            /\ Goto(t, "apply_history")
            /\ Pending(t)
    /\ UNCHANGED <<db, today, calc, org, itemWrittenBy, wf>>

\* apply_change, line 303
ApplyLoad(t, c) ==
    /\ Start(t)
    /\ LET got == GetChangeOr404(c, "APPROVED") IN
       IF IsNone(got)
       THEN /\ Done(t, "apply", c, "404")
       ELSE /\ loc' = [loc EXCEPT ![t] = [NoLoc EXCEPT !.change = got]]
            /\ Goto(t, "apply_check")
            /\ Pending(t)
    /\ UNCHANGED <<db, today, calc, org, itemWrittenBy, wf>>

\* apply_to_item, lines 326-329: the status check on the loaded row (a
\* ValueError the view reports), then item = self.item, a query of its own.
ApplyLoadItem(t) ==
    /\ pc[t] = "apply_check"
    /\ LET ch == Val(loc[t].change) IN
       IF ch.row.status # "APPROVED"
       THEN Done(t, "apply", Val(loc[t].change).id, "invalid")
       ELSE /\ loc' = [loc EXCEPT ![t].item = Some(items[ch.row.item]),
                                  ![t].itemId = Some(ch.row.item)]
            /\ Goto(t, "apply_history")
            /\ UNCHANGED resp
    /\ UNCHANGED <<db, today, calc, org, budget, itemWrittenBy, wf>>

\* faulty variant of retail_changed: a defined retail always counts as a change
retail_changed_Defined(row, item) == ~IsNone(row.approved_retail)

\* apply_to_item, lines 332-335
retail_changed(row, item) ==
    ~IsNone(row.approved_retail) /\ row.approved_retail # item.retail_price

\* faulty variant of HistoryRow: the old values are those of the snapshot the
\* submit took
HistoryRow_Snapshot(t, ch, item) ==
    [item |-> ch.row.item,
     change_type |-> IF retail_changed(ch.row, item)
                     THEN "COST_AND_PRICE" ELSE "COST_ONLY",
     old_case_cost |-> ch.row.prev_case_cost,
     old_allowance |-> ch.row.prev_allowance,
     new_case_cost |-> ch.row.new_case_cost,
     new_allowance |-> ch.row.new_allowance,
     old_retail |-> item.retail_price,
     new_retail |-> ch.row.approved_retail,
     old_margin |-> StoredMargin(margin(item)),
     changed_by |-> User(t),
     change_source |-> ch.row.change_source,
     pending_cost_change_id |-> ch.id]

\* apply_to_item, lines 336-353: the ChangeHistory row
HistoryRow(t, ch, item) ==
    [item |-> ch.row.item,
     change_type |-> IF retail_changed(ch.row, item)
                     THEN "COST_AND_PRICE" ELSE "COST_ONLY",
     old_case_cost |-> item.case_cost,
     old_allowance |-> item.allowance,
     new_case_cost |-> ch.row.new_case_cost,
     new_allowance |-> ch.row.new_allowance,
     old_retail |-> item.retail_price,
     new_retail |-> ch.row.approved_retail,
     old_margin |-> StoredMargin(margin(item)),
     changed_by |-> User(t),
     change_source |-> ch.row.change_source,
     pending_cost_change_id |-> ch.id]

\* faulty variant of ApplyHistory: the history row is not written
ApplyHistory_Skip(t) ==
    /\ pc[t] = "apply_history"
    /\ Goto(t, "apply_item")
    /\ UNCHANGED <<db, today, calc, org, loc, resp, budget, itemWrittenBy, wf>>

\* apply_to_item, lines 338-353: ChangeHistory.objects.create(...).  A margin
\* the old_margin column cannot hold raises, uncaught, before anything is
\* written.
ApplyHistory(t) ==
    /\ pc[t] = "apply_history"
    /\ LET ch == Val(loc[t].change)
           item == Val(loc[t].item)
       IN  IF ~FitsMargin(margin(item))
           THEN /\ Done(t, "apply", Val(loc[t].change).id, "500")
                /\ UNCHANGED history
           ELSE /\ Len(history) < MaxHistory
                /\ history' = Append(history, HistoryRow(t, ch, item))
                /\ Goto(t, "apply_item")
                /\ UNCHANGED <<loc, resp>>
    /\ UNCHANGED <<items, changes, exportLog, today, calc, org, budget, itemWrittenBy, wf>>

\* faulty variant of AppliedItem: the item keeps its retail price
AppliedItem_KeepRetail(row, item, now) ==
    [item EXCEPT !.case_cost = row.new_case_cost,
                 !.allowance = row.new_allowance,
                 !.last_cost_change = Some(now)]

\* apply_to_item, lines 356-361: the item as item.save() writes it
AppliedItem(row, item, now) ==
    [item EXCEPT !.case_cost = row.new_case_cost,
                 !.allowance = row.new_allowance,
                 !.last_cost_change = Some(now),
                 !.retail_price = IF retail_changed(row, item)
                                  THEN row.approved_retail ELSE @,
                 !.last_price_change = IF retail_changed(row, item)
                                       THEN Some(now) ELSE @]

\* faulty variant of ApplyItem: the date of the last price change is stamped
\* whether or not the retail changes
ApplyItem_StampPrice(t) ==
    /\ pc[t] = "apply_item"
    /\ LET ch == Val(loc[t].change)
           item == Val(loc[t].item)
       IN  /\ items' = [items EXCEPT ![ch.row.item] =
                          [AppliedItem(ch.row, item, today)
                             EXCEPT !.last_price_change = Some(today)]]
           /\ itemWrittenBy' = itemWrittenBy \cup {ch.id}
    /\ Goto(t, "apply_status")
    /\ UNCHANGED <<changes, history, exportLog, today, calc, org, loc, resp, budget, wf>>

\* apply_to_item, lines 355-362: item.save() writes every column of the
\* loaded item.
ApplyItem(t) ==
    /\ pc[t] = "apply_item"
    /\ LET ch == Val(loc[t].change)
           item == Val(loc[t].item)
       IN  /\ items' = [items EXCEPT ![ch.row.item] = AppliedItem(ch.row, item, today)]
           /\ itemWrittenBy' = itemWrittenBy \cup {ch.id}
    /\ Goto(t, "apply_status")
    /\ UNCHANGED <<changes, history, exportLog, today, calc, org, loc, resp, budget, wf>>

\* faulty variant of ApplyStatus: the save takes the snapshot again, from the
\* item the apply has just written
ApplyStatus_Resnapshot(t) ==
    /\ pc[t] = "apply_status"
    /\ LET ch == Val(loc[t].change)
           item == items[ch.row.item]
       IN
          /\ changes' = [changes EXCEPT ![ch.id] =
                           [ch.row EXCEPT !.status = "APPLIED",
                                          !.applied_at = Some(today),
                                          !.prev_case_cost = item.case_cost,
                                          !.prev_allowance = item.allowance,
                                          !.prev_retail = item.retail_price,
                                          !.prev_margin = StoredMargin(margin(item))]]
          /\ Wrote(ch.id, "apply")
    /\ Done(t, "apply", Val(loc[t].change).id, "ok")
    /\ UNCHANGED <<items, history, exportLog, today, calc, org, budget, itemWrittenBy>>

\* apply_to_item, lines 364-367: status APPLIED, self.save()
ApplyStatus(t) ==
    /\ pc[t] = "apply_status"
    /\ LET ch == Val(loc[t].change) IN
          /\ changes' = [changes EXCEPT ![ch.id] =
                           [ch.row EXCEPT !.status = "APPLIED",
                                          !.applied_at = Some(today)]]
          /\ Wrote(ch.id, "apply")
    /\ Done(t, "apply", Val(loc[t].change).id, "ok")
    /\ UNCHANGED <<items, history, exportLog, today, calc, org, budget, itemWrittenBy>>

\* ------------------------------------------------------------------- export
\* faulty variant of Due: the filter leaves out the changes that take effect today
Due_Before(td) == {c \in 1..Len(changes) :
                      changes[c].status = "APPROVED" /\ changes[c].effective_date < td}

\* brdata_export, lines 331-334: status='APPROVED', effective_date__lte=today
Due(td) == {c \in 1..Len(changes) :
               changes[c].status = "APPROVED" /\ changes[c].effective_date <= td}

\* The orders in which the query may return the rows of S: by effective_date
\* (Meta.ordering), rows of one date in any order.
Orderings(S) ==
    {s \in [1..Cardinality(S) -> S] :
        /\ \A a, b \in 1..Cardinality(S) : a # b => s[a] # s[b]
        /\ \A a, b \in 1..Cardinality(S) :
              a < b => changes[s[a]].effective_date <= changes[s[b]].effective_date}

\* lines 355-362: one CSV row
CsvRow(c) == [change |-> c, item |-> changes[c].item,
              new_retail |-> changes[c].approved_retail,
              effective_date |-> changes[c].effective_date]

\* lines 367-377: one BRDataExportLog row
LogRow(t, c, file) ==
    [change |-> c, item |-> changes[c].item,
     new_retail |-> changes[c].approved_retail,
     effective_date |-> changes[c].effective_date,
     export_status |-> "SENT",
     export_file |-> file,
     exported_by |-> User(t)]

\* faulty variant of ExportStart: a change the log already holds is not due
ExportStart_OnlyNew(t) ==
    /\ Start(t)
    /\ IF {c \in Due(today) : \A k \in 1..Len(exportLog) : exportLog[k].change # c} = {}
       THEN /\ Done(t, "export", 0, "empty")
       ELSE /\ loc' = [loc EXCEPT ![t] = [NoLoc EXCEPT !.today = Some(today),
                                                       !.logStart = Len(exportLog)]]
            /\ Goto(t, "export_rows")
            /\ Pending(t)
    /\ UNCHANGED <<db, today, calc, org, itemWrittenBy, wf>>

\* brdata_export, lines 329-338: today, and changes.exists()
ExportStart(t) ==
    /\ Start(t)
    /\ IF Due(today) = {}
       THEN /\ Done(t, "export", 0, "empty")
       ELSE /\ loc' = [loc EXCEPT ![t] = [NoLoc EXCEPT !.today = Some(today),
                                                       !.logStart = Len(exportLog)]]
            /\ Goto(t, "export_rows")
            /\ Pending(t)
    /\ UNCHANGED <<db, today, calc, org, itemWrittenBy, wf>>

\* lines 353-363: for change in changes runs the query again and writes one
\* row per result; export_records keeps the ids.
ExportRows(t) ==
    /\ pc[t] = "export_rows"
    /\ \E s \in Orderings(Due(Val(loc[t].today))) :
          /\ IF Len(s) = 0
             THEN Done(t, "export", 0, "csv")
             ELSE /\ loc' = [loc EXCEPT ![t].rows = [k \in 1..Len(s) |-> CsvRow(s[k])],
                                        ![t].idx = 1]
                  /\ Goto(t, "export_log")
                  /\ UNCHANGED resp
    /\ UNCHANGED <<db, today, calc, org, budget, itemWrittenBy, wf>>

\* faulty variant of ExportLog: the exported change is marked APPLIED
ExportLog_MarkApplied(t) ==
    /\ pc[t] = "export_log"
    /\ LET c == loc[t].rows[loc[t].idx].change IN
       /\ Len(exportLog) < MaxLog
       /\ exportLog' = Append(exportLog, LogRow(t, c, Val(loc[t].today)))
       /\ changes' = [changes EXCEPT ![c].status = "APPLIED"]
       /\ IF loc[t].idx = Len(loc[t].rows)
          THEN Done(t, "export", 0, "csv")
          ELSE /\ loc' = [loc EXCEPT ![t].idx = @ + 1]
               /\ UNCHANGED <<pc, resp>>
    /\ UNCHANGED <<items, history, today, calc, org, budget, itemWrittenBy, wf>>

\* lines 366-377: one log row per id of export_records; changes.get(id=...)
\* queries the filtered set again and raises DoesNotExist, uncaught, when the
\* row has left it.
ExportLog(t) ==
    /\ pc[t] = "export_log"
    /\ LET c == loc[t].rows[loc[t].idx].change IN
       IF c \notin Due(Val(loc[t].today))
       THEN /\ Done(t, "export", 0, "500")
            /\ UNCHANGED exportLog
       ELSE /\ Len(exportLog) < MaxLog
            /\ exportLog' = Append(exportLog, LogRow(t, c, Val(loc[t].today)))
            /\ IF loc[t].idx = Len(loc[t].rows)
               THEN Done(t, "export", 0, "csv")
               ELSE /\ loc' = [loc EXCEPT ![t].idx = @ + 1]
                    /\ UNCHANGED <<pc, resp>>
    /\ UNCHANGED <<items, changes, history, today, calc, org, budget, itemWrittenBy, wf>>

\* -------------------------------------------------------------- environment
\* the view a statement belongs to
ViewOf(label) ==
    CASE label \in {"submit_existing", "submit_save"} -> "submit"
      [] label = "approve_post" -> "approve"
      [] label \in {"apply_check", "apply_history", "apply_item", "apply_status"} -> "apply"
      [] OTHER -> "export"

\* the item a submit is for, the change an approve or an apply is for
TargetOf(t) ==
    IF ViewOf(pc[t]) = "submit" THEN Val(loc[t].itemId)
    ELSE IF ViewOf(pc[t]) = "export" THEN 0
    ELSE Val(loc[t].change).id

\* a request in flight dies between two statements (the worker is killed, the
\* connection drops): what it has written stays written
Fail(t) ==
    /\ pc[t] # "idle"
    /\ Done(t, ViewOf(pc[t]), TargetOf(t), "500")
    /\ UNCHANGED <<db, today, calc, org, budget, itemWrittenBy, wf>>

\* ------------------------------------------------------------ bulk import
\* import_dsd_master.py, line 65: PendingCostChange.objects.all().delete()
ImportClearChanges(t) ==
    /\ Start(t)
    /\ changes' = <<>>
    /\ wf' = [c \in ChangeIds |-> <<>>]
    /\ itemWrittenBy' = {}
    /\ Goto(t, "import_history")
    /\ Pending(t)
    /\ UNCHANGED <<items, history, exportLog, today, calc, org, loc>>

\* line 66: ChangeHistory.objects.all().delete()
ImportClearHistory(t) ==
    /\ pc[t] = "import_history"
    /\ history' = <<>>
    /\ Goto(t, "import_items")
    /\ UNCHANGED <<items, changes, exportLog, today, calc, org, loc, resp, budget,
                   itemWrittenBy, wf>>

\* line 67: Item.objects.all().delete()
ImportClearItems(t) ==
    /\ pc[t] = "import_items"
    /\ items' = <<>>
    /\ Goto(t, "import_groups")
    /\ UNCHANGED <<changes, history, exportLog, today, calc, org, loc, resp, budget,
                   itemWrittenBy, wf>>

\* line 68: LinkGroup.objects.all().delete()
ImportClearGroups(t) ==
    /\ pc[t] = "import_groups"
    /\ org' = [org EXCEPT !.link_groups = <<>>]
    /\ Goto(t, "import_vendors")
    /\ UNCHANGED <<db, today, calc, loc, resp, budget, itemWrittenBy, wf>>

\* line 69: Vendor.objects.all().delete(); no item and no link group is left
\* to restrict it
ImportClearVendors(t) ==
    /\ pc[t] = "import_vendors"
    /\ org' = [org EXCEPT !.vendors = {}]
    /\ Goto(t, "import_load")
    /\ UNCHANGED <<db, today, calc, loc, resp, budget, itemWrittenBy, wf>>

\* int(float(str(v))) of the cells of the file that hold a number
CellInt == ("4" :> 4) @@ ("0" :> 0) @@ ("-4" :> 0 - 4)

\* the "Case Pack" cells of the file: a number, nothing, or no number
CasePackCells == {"4", "0", "-4", "", "abc"}

\* faulty variant of pint: the number of the cell as it is
pint_Raw(v) ==
    IF v = "" THEN 1
    ELSE IF v \notin DOMAIN CellInt THEN 1
    ELSE CellInt[v]

\* pint(v, 1), lines 53-55: the default 1 for an empty cell and for a cell
\* that is no number (except: return d), max(1, int(float(str(v)))) otherwise
pint(v) ==
    IF v = "" THEN 1
    ELSE IF v \notin DOMAIN CellInt THEN 1
    ELSE IF CellInt[v] < 1 THEN 1 ELSE CellInt[v]

\* The rows of the file: the columns of an item row, with the text of the
\* "Case Pack" cell.
FileRows ==
    {<<r, "4">> : r \in {Item1, Item2, ItemZeroMargin, ItemNoRetail}}
        \cup {<<Item1, cell>> : cell \in CasePackCells}

\* lines 126-147: the Item a row of the file becomes; the last-change date of
\* the file goes to both date columns
ImportedItem(row, cell) ==
    [vendor |-> row.vendor, link_group |-> row.link_group,
     case_cost |-> row.case_cost, allowance |-> row.allowance,
     case_pack |-> pint(cell), retail_price |-> row.retail_price,
     last_cost_change |-> Some(1), last_price_change |-> Some(1)]

\* lines 72-152: the vendor, the link group and the items of the file are
\* created
ImportLoad(t) ==
    /\ pc[t] = "import_load"
    /\ \E f \in FileRows :
          items' = (1 :> ImportedItem(f[1], f[2])) @@ (2 :> ImportedItem(Item1, "4"))
    /\ org' = Org1
    /\ Done(t, "import", 0, "ok")
    /\ UNCHANGED <<changes, history, exportLog, today, calc, budget,
                   itemWrittenBy, wf>>

\* ---------------------------------------------------------------- deletion
\* Model.delete() under the on_delete rules of models.py.  Django collects
\* the rows a delete reaches before it writes, and deletes them in one
\* transaction.
VendorCodes == {"ACME", "BEST"}

LinkGroupIds == {1, 2}

\* Item.vendor and LinkGroup.vendor are RESTRICT: the rows that refer to v
VendorItems(v) == {i \in DOMAIN items : items[i].vendor = v}

VendorLinkGroups(v) == {g \in DOMAIN org.link_groups : org.link_groups[g] = v}

\* vendor.delete(): RestrictedError while an item or a link group refers to it
DeleteVendor(t, v) ==
    /\ Start(t)
    /\ v \in org.vendors
    /\ IF VendorItems(v) # {} \/ VendorLinkGroups(v) # {}
       THEN /\ Done(t, "delete_vendor", 0, "restricted")
            /\ UNCHANGED org
       ELSE /\ org' = [org EXCEPT !.vendors = @ \ {v}]
            /\ Done(t, "delete_vendor", 0, "ok")
    /\ UNCHANGED <<db, today, calc, itemWrittenBy, wf>>

\* link_group.delete(): Item.link_group is SET_NULL
DeleteLinkGroup(t, g) ==
    /\ Start(t)
    /\ g \in DOMAIN org.link_groups
    /\ org' = [org EXCEPT !.link_groups =
                  [h \in DOMAIN org.link_groups \ {g} |-> org.link_groups[h]]]
    /\ items' = [i \in DOMAIN items |->
                   IF items[i].link_group = Some(g)
                   THEN [items[i] EXCEPT !.link_group = None] ELSE items[i]]
    /\ Done(t, "delete_link_group", g, "ok")
    /\ UNCHANGED <<changes, history, exportLog, today, calc, itemWrittenBy, wf>>

\* faulty variant of DeleteItem: the history rows of the item's changes go
\* with it
DeleteItem_PurgeHistory(t, i) ==
    /\ Start(t)
    /\ ItemExists(i)
    /\ items' = [j \in DOMAIN items \ {i} |-> items[j]]
    /\ changes' = [c \in 1..Len(changes) |->
                     IF changes[c].item = i
                     THEN [changes[c] EXCEPT !.status = "DELETED"] ELSE changes[c]]
    /\ history' = SelectSeq(history, LAMBDA h : h.item # i)
    /\ Done(t, "delete_item", i, "ok")
    /\ UNCHANGED <<exportLog, today, calc, org, itemWrittenBy, wf>>

\* item.delete(): PendingCostChange.item is CASCADE; ChangeHistory and
\* BRDataExportLog have no foreign key.  A deleted change leaves its id
\* behind (ids are not used again): the row stays in the model with the
\* status "DELETED", which no query selects.
DeleteItem(t, i) ==
    /\ Start(t)
    /\ ItemExists(i)
    /\ items' = [j \in DOMAIN items \ {i} |-> items[j]]
    /\ changes' = [c \in 1..Len(changes) |->
                     IF changes[c].item = i
                     THEN [changes[c] EXCEPT !.status = "DELETED"] ELSE changes[c]]
    /\ Done(t, "delete_item", i, "ok")
    /\ UNCHANGED <<history, exportLog, today, calc, org, itemWrittenBy, wf>>

\* ----------------------------------------------------------- pricing calls
\* The arguments the pricing functions are called with: unit costs of whole
\* cents or thirds of a cent, margins inside (0,1), raw UPCs with digits,
\* hyphens, blanks and letters.
UnitCosts == 1..MaxUnitCost

UnitCostDenominators == {1, 3}

Margins == {<<28, 100>>, <<1, 2>>, <<2816, 10000>>}

UpcChars == {"0", "7", "-", " ", "A"}

RawUpcs ==
    {None} \cup {Some(str) : str \in UNION {[1..n -> UpcChars] : n \in 0..MaxUpcLen}}

\* unit costs and margins of every kind: missing, negative, zero, inside and
\* outside the range
AnyUnitCosts ==
    {None} \cup {Some(<<un, ud>>) : un \in {0 - 250, 0 - 1, 0, 1, 250, 275},
                                     ud \in UnitCostDenominators}

AnyMargins ==
    {None} \cup {Some(<<a, 10000>>) :
                    a \in {0 - 2500, 0 - 1, 0, 1, 2800, 9999, 10000, 10001, 15000}}

\* suggest_retail is called for two unit costs u1 <= u2 and one margin, or
\* for a unit cost and a margin of any kind; normalize_upc for one raw UPC
InitPure ==
    /\ items = (1 :> Item1) @@ (2 :> Item2)
    /\ org = Org1
    /\ changes = <<>> /\ history = <<>> /\ exportLog = <<>> /\ today = 2
    /\ pc = [t \in Threads |-> "idle"]
    /\ loc = [t \in Threads |-> NoLoc]
    /\ resp = [t \in Threads |-> <<"none", 0, "none">>]
    /\ itemWrittenBy = {}
    /\ wf = [c \in ChangeIds |-> <<>>]
    /\ budget = 0
    /\ \/ \E u1 \in UnitCosts, u2 \in UnitCosts, ud \in UnitCostDenominators,
             m \in Margins :
             /\ u1 <= u2
             /\ calc = [fn |-> "suggest_retail", arg |-> <<u1, u2, ud, m>>,
                        out |-> <<>>, step |-> 0]
       \/ \E raw \in RawUpcs :
             calc = [fn |-> "normalize_upc", arg |-> <<raw>>, out |-> <<>>,
                     step |-> 0]
       \/ \E u \in AnyUnitCosts, m \in AnyMargins :
             calc = [fn |-> "suggest_retail_of", arg |-> <<u, m>>, out |-> <<>>,
                     step |-> 0]

\* suggested = suggest_retail(u, m), for both unit costs
SuggestRetailCall ==
    /\ calc.fn = "suggest_retail" /\ calc.step = 0
    /\ LET a == calc.arg IN
       calc' = [calc EXCEPT !.out = <<suggest_retail(a[1], a[3], a[4]),
                                      suggest_retail(a[2], a[3], a[4])>>,
                            !.step = 1]
    /\ UNCHANGED <<db, today, org, pc, loc, resp, budget, itemWrittenBy, wf>>

\* suggested = suggest_retail(u, m) for inputs of any kind
SuggestRetailOfCall ==
    /\ calc.fn = "suggest_retail_of" /\ calc.step = 0
    /\ calc' = [calc EXCEPT !.out = <<suggest_retail_of(calc.arg[1], calc.arg[2])>>,
                            !.step = 1]
    /\ UNCHANGED <<db, today, org, pc, loc, resp, budget, itemWrittenBy, wf>>

\* calculate_margin(suggested, u), for the first unit cost
CalculateMarginCall ==
    /\ calc.fn = "suggest_retail" /\ calc.step = 1
    /\ LET a == calc.arg IN
       calc' = [calc EXCEPT !.out = Append(@, calculate_margin(calc.out[1], a[1], a[3])),
                            !.step = 2]
    /\ UNCHANGED <<db, today, org, pc, loc, resp, budget, itemWrittenBy, wf>>

\* normalize_upc(raw), and then normalize_upc of the result
NormalizeUpcCall ==
    /\ calc.fn = "normalize_upc" /\ calc.step < 2
    /\ calc' = [calc EXCEPT !.out = Append(@, normalize_upc(IF calc.step = 0
                                                            THEN calc.arg[1]
                                                            ELSE calc.out[1])),
                            !.step = @ + 1]
    /\ UNCHANGED <<db, today, org, pc, loc, resp, budget, itemWrittenBy, wf>>

\* ------------------------------------------------------------ specifications
\* requests of several workers, their statements interleaved
Next ==
    \/ \E t \in Threads, i \in ItemIds : SubmitLoadItem(t, i)
    \/ \E t \in Threads : SubmitLoadExisting(t)
    \/ \E t \in Threads : SubmitSave(t)
    \/ \E t \in Threads, c \in ChangeIds : ApproveLoad(t, c)
    \/ \E t \in Threads : ApproveSave(t)
    \/ \E t \in Threads : RejectSave(t)
    \/ \E t \in Threads, c \in ChangeIds : ApplyLoad(t, c)
    \/ \E t \in Threads : ApplyLoadItem(t)
    \/ \E t \in Threads : ApplyHistory(t)
    \/ \E t \in Threads : ApplyItem(t)
    \/ \E t \in Threads : ApplyStatus(t)
    \/ \E t \in Threads : ExportStart(t)
    \/ \E t \in Threads : ExportRows(t)
    \/ \E t \in Threads : ExportLog(t)
    \/ \E t \in Threads : Fail(t)

Spec == Init /\ [][Next]_vars

\* one worker, every request run to its end before the next one starts
NextSeq ==
    \/ \E i \in ItemIds : SubmitLoadItem(1, i)
    \/ SubmitLoadExisting(1)
    \/ SubmitSave(1)
    \/ \E c \in ChangeIds : ApproveLoad(1, c)
    \/ ApproveSave(1)
    \/ RejectSave(1)
    \/ \E c \in ChangeIds : ApplyLoad(1, c)
    \/ ApplyLoadItem(1)
    \/ ApplyHistory(1)
    \/ ApplyItem(1)
    \/ ApplyStatus(1)
    \/ ExportStart(1)
    \/ ExportRows(1)
    \/ ExportLog(1)

SpecSeq == InitSeq /\ [][NextSeq]_vars

\* one worker over the item rows the schema admits, with the forms and the
\* overrides of every kind, and the bulk import run between requests
InitRows ==
    /\ \E r \in ItemRows : items = (1 :> r) @@ (2 :> Item1)
    /\ calc = NoCall
    /\ org = Org1
    /\ changes = <<>>
    /\ history = <<>>
    /\ exportLog = <<>>
    /\ today = 2
    /\ pc = [t \in Threads |-> "idle"]
    /\ loc = [t \in Threads |-> NoLoc]
    /\ resp = [t \in Threads |-> <<"none", 0, "none">>]
    /\ itemWrittenBy = {}
    /\ wf = [c \in ChangeIds |-> <<>>]
    /\ budget = MaxRowRequests

NextRows ==
    \/ \E i \in ItemIds, post \in Forms \cup OddForms : SubmitLoad(1, i, post)
    \/ SubmitLoadExisting(1)
    \/ SubmitSave(1)
    \/ \E c \in ChangeIds : ApproveLoad(1, c)
    \/ \E ov \in OddOverrides : ApproveWith(1, ov)
    \/ RejectSave(1)
    \/ \E c \in ChangeIds : ApplyLoad(1, c)
    \/ ApplyLoadItem(1)
    \/ ApplyHistory(1)
    \/ ApplyItem(1)
    \/ ApplyStatus(1)
    \/ ImportClearChanges(1)
    \/ ImportClearHistory(1)
    \/ ImportClearItems(1)
    \/ ImportClearGroups(1)
    \/ ImportClearVendors(1)
    \/ ImportLoad(1)

SpecRows == InitRows /\ [][NextRows]_vars

InitApply == InitDb /\ budget = MaxApplyRequests

\* two workers serving submit, approve, apply and export requests, their
\* statements in any order
NextApply ==
    \/ \E t \in Threads, i \in ItemIds : SubmitLoadItem(t, i)
    \/ \E t \in Threads : SubmitLoadExisting(t)
    \/ \E t \in Threads : SubmitSave(t)
    \/ \E t \in Threads, c \in ChangeIds : ApproveLoad(t, c)
    \/ \E t \in Threads : ApproveSave(t)
    \/ \E t \in Threads, c \in ChangeIds : ApplyLoad(t, c)
    \/ \E t \in Threads : ApplyLoadItem(t)
    \/ \E t \in Threads : ApplyHistory(t)
    \/ \E t \in Threads : ApplyItem(t)
    \/ \E t \in Threads : ApplyStatus(t)
    \/ \E t \in Threads : ExportStart(t)
    \/ \E t \in Threads : ExportRows(t)
    \/ \E t \in Threads : ExportLog(t)

SpecApply == InitApply /\ [][NextApply]_vars

InitChain == InitDb /\ budget = MaxChainRequests

\* one worker serving submit, approve and apply requests, each to its end:
\* enough of them to apply two changes of one item
NextChain ==
    \/ \E i \in ItemIds : SubmitLoadItem(1, i)
    \/ SubmitLoadExisting(1)
    \/ SubmitSave(1)
    \/ \E c \in ChangeIds : ApproveLoad(1, c)
    \/ ApproveSave(1)
    \/ \E c \in ChangeIds : ApplyLoad(1, c)
    \/ ApplyLoadItem(1)
    \/ ApplyHistory(1)
    \/ ApplyItem(1)
    \/ ApplyStatus(1)

SpecChain == InitChain /\ [][NextChain]_vars

\* the database before the first run of the bulk import: no row in any table
InitImport ==
    /\ items = <<>>
    /\ org = [vendors |-> {}, link_groups |-> <<>>]
    /\ calc = NoCall
    /\ changes = <<>>
    /\ history = <<>>
    /\ exportLog = <<>>
    /\ today = 2
    /\ pc = [t \in Threads |-> "idle"]
    /\ loc = [t \in Threads |-> NoLoc]
    /\ resp = [t \in Threads |-> <<"none", 0, "none">>]
    /\ itemWrittenBy = {}
    /\ wf = [c \in ChangeIds |-> <<>>]
    /\ budget = MaxImportRequests

\* one worker: runs of the bulk import and the requests of the workflow
NextImport ==
    \/ ImportClearChanges(1)
    \/ ImportClearHistory(1)
    \/ ImportClearItems(1)
    \/ ImportClearGroups(1)
    \/ ImportClearVendors(1)
    \/ ImportLoad(1)
    \/ \E i \in ItemIds : SubmitLoadItem(1, i)
    \/ SubmitLoadExisting(1)
    \/ SubmitSave(1)
    \/ \E c \in ChangeIds : ApproveLoad(1, c)
    \/ ApproveSave(1)
    \/ RejectSave(1)
    \/ \E c \in ChangeIds : ApplyLoad(1, c)
    \/ ApplyLoadItem(1)
    \/ ApplyHistory(1)
    \/ ApplyItem(1)
    \/ ApplyStatus(1)
    \/ ExportStart(1)
    \/ ExportRows(1)
    \/ ExportLog(1)

SpecImport == InitImport /\ [][NextImport]_vars

\* The vendors, link groups and items a deletion may meet: item 1 of vendor
\* ACME in its link group 1, item 2 of either vendor in link group 2 or in
\* none, link group 2 of vendor BEST.
InitDelete ==
    /\ \E v \in VendorCodes, g \in {None, Some(2)} :
          items = (1 :> Item1) @@ (2 :> [Item2 EXCEPT !.vendor = v, !.link_group = g])
    /\ org = [vendors |-> VendorCodes, link_groups |-> (1 :> "ACME") @@ (2 :> "BEST")]
    /\ calc = NoCall
    /\ changes = <<>>
    /\ history = <<>>
    /\ exportLog = <<>>
    /\ today = 2
    /\ pc = [t \in Threads |-> "idle"]
    /\ loc = [t \in Threads |-> NoLoc]
    /\ resp = [t \in Threads |-> <<"none", 0, "none">>]
    /\ itemWrittenBy = {}
    /\ wf = [c \in ChangeIds |-> <<>>]
    /\ budget = MaxDeleteRequests

\* one worker: the requests of the workflow, and deletions between them
NextDelete ==
    \/ \E i \in ItemIds : SubmitLoadItem(1, i)
    \/ SubmitLoadExisting(1)
    \/ SubmitSave(1)
    \/ \E c \in ChangeIds : ApproveLoad(1, c)
    \/ ApproveSave(1)
    \/ RejectSave(1)
    \/ \E c \in ChangeIds : ApplyLoad(1, c)
    \/ ApplyLoadItem(1)
    \/ ApplyHistory(1)
    \/ ApplyItem(1)
    \/ ApplyStatus(1)
    \/ ExportStart(1)
    \/ ExportRows(1)
    \/ ExportLog(1)
    \/ \E v \in VendorCodes : DeleteVendor(1, v)
    \/ \E g \in LinkGroupIds : DeleteLinkGroup(1, g)
    \/ \E i \in ItemIds : DeleteItem(1, i)

SpecDelete == InitDelete /\ [][NextDelete]_vars

\* the functions of utils/pricing.py, called on their own
NextPure ==
    \/ SuggestRetailCall
    \/ SuggestRetailOfCall
    \/ CalculateMarginCall
    \/ NormalizeUpcCall

SpecPure == InitPure /\ [][NextPure]_vars

\* =================================================================== claims
IdleAll == \A t \in Threads : pc[t] = "idle"

HistoryOf(c) == {k \in 1..Len(history) : history[k].pending_cost_change_id = c}

IsSubmit(token) == token \in {"submit", "submitOv"}

\* ---------------------------------------------------------------------- C1
\* C1 (as claimed): under any interleaving of requests the status of a
\* PendingCostChange only moves PENDING -> APPROVED, PENDING -> REJECTED or
\* APPROVED -> APPLIED, so a row that is APPLIED or REJECTED keeps its status.
C1_StatusPath ==
    [][\A c \in 1..Len(changes) :
          \/ changes'[c].status = changes[c].status
          \/ <<changes[c].status, changes'[c].status>> \in
                {<<"PENDING", "APPROVED">>, <<"PENDING", "REJECTED">>,
                 <<"APPROVED", "APPLIED">>}]_vars

\* ---------------------------------------------------------------------- C2
\* C2: with requests served one after the other, no item ever has two
\* PENDING changes, and a submit for an item that has a PENDING change writes
\* that row and adds none.
C2_OnePendingPerItem ==
    /\ [](\A i \in ItemIds : Cardinality(PendingOf(i)) <= 1)
    /\ [][\A t \in Threads, i \in ItemIds :
            (/\ pc[t] = "submit_save"
             /\ resp'[t] = <<"submit", i, "ok">>
             /\ PendingOf(i) # {})
            => /\ Len(changes') = Len(changes)
               /\ PendingIn(changes', i) = PendingOf(i)]_vars

\* the only row of the table is PENDING and two submits have written it
C2_Witness ==
    /\ IdleAll
    /\ Len(changes) = 1
    /\ changes[1].status = "PENDING"
    /\ Len(wf[1]) = 2 /\ IsSubmit(wf[1][1]) /\ IsSubmit(wf[1][2])

\* ---------------------------------------------------------------------- C3
\* C3 (as claimed): however the reads and writes of concurrent submits for
\* one item interleave, the item never has two PENDING changes.
C3_NoTwoPendingConcurrent ==
    \A i \in ItemIds : \A c, d \in PendingOf(i) : c = d

\* ---------------------------------------------------------------------- C4
\* C4: an approve or reject request for a change that is not PENDING (or
\* does not exist) ends at once with 404 and writes nothing.
C4_ApproveNonPendingFails ==
    [][\A t \in Threads, c \in ChangeIds :
          (/\ pc[t] = "idle"
           /\ ~(Exists(c) /\ changes[c].status = "PENDING")
           /\ ApproveLoad(t, c))
          => /\ resp'[t] = <<"approve", c, "404">>
             /\ pc'[t] = "idle"
             /\ UNCHANGED <<items, changes, history, exportLog, wf>>]_vars

\* an approve request got 404 for a change that exists and is not PENDING
C4_Witness ==
    \E t \in Threads, c \in 1..Len(changes) :
        /\ resp[t] = <<"approve", c, "404">>
        /\ wf[c] # <<>>
        /\ ~IsSubmit(wf[c][Len(wf[c])])
        /\ changes[c].status # "PENDING"

\* ---------------------------------------------------------------------- C5
\* C5: an apply request for a change that is not APPROVED (or does not
\* exist) ends at once with 404: no history row is written, no item and no
\* change row is touched.
C5_ApplyNonApprovedFails ==
    [][\A t \in Threads, c \in ChangeIds :
          (/\ pc[t] = "idle"
           /\ ~(Exists(c) /\ changes[c].status = "APPROVED")
           /\ ApplyLoad(t, c))
          => /\ resp'[t] = <<"apply", c, "404">>
             /\ pc'[t] = "idle"
             /\ UNCHANGED <<items, changes, history, exportLog, itemWrittenBy, wf>>]_vars

\* an apply request got 404 for a change that exists and is PENDING
C5_Witness ==
    \E t \in Threads, c \in 1..Len(changes) :
        /\ resp[t] = <<"apply", c, "404">>
        /\ changes[c].status = "PENDING"
        /\ Len(wf[c]) = 1
        /\ history = <<>>

\* ---------------------------------------------------------------------- C6
\* C6 (as claimed): in every reachable state, for every change, either its
\* history row exists and the item has been saved with its values and it is
\* APPLIED, or none of the three.
C6_ApplyAtomic ==
    \A c \in ChangeIds :
        LET recorded == HistoryOf(c) # {}
            mutated == c \in itemWrittenBy
            applied == Exists(c) /\ changes[c].status = "APPLIED"
        IN  (recorded /\ mutated /\ applied) \/ (~recorded /\ ~mutated /\ ~applied)

\* ---------------------------------------------------------------------- C7
\* C7: whenever an apply has saved the item with a change's values, or the
\* change is APPLIED, a history row with that change's id exists already.
C7_HistoryBeforeItem ==
    \A c \in ChangeIds :
        (c \in itemWrittenBy \/ (Exists(c) /\ changes[c].status = "APPLIED"))
        => HistoryOf(c) # {}

\* an apply in progress: the item is saved, the change not yet APPLIED
C7_Witness ==
    \E t \in Threads, c \in 1..Len(changes) :
        /\ pc[t] = "apply_status"
        /\ Val(loc[t].change).id = c
        /\ c \in itemWrittenBy
        /\ changes[c].status = "APPROVED"
        /\ HistoryOf(c) # {}

\* ---------------------------------------------------------------------- C8
\* a submit of worker t for item i saves over the PENDING row c, which a
\* submit wrote last
C8_SecondSubmit(t, i, c) ==
    /\ pc[t] = "submit_save"
    /\ resp'[t] = <<"submit", i, "ok">>
    /\ ~IsNone(loc[t].change) /\ Val(loc[t].change).id = c
    /\ wf[c] # <<>> /\ IsSubmit(wf[c][Len(wf[c])])

\* the retail the second submit suggests for the live item
C8_Suggested(post, item) ==
    suggest_retail(post.new_case_cost - post.new_allowance, item.case_pack,
                   IF IsNone(margin(item)) \/ Val(margin(item))[1] = 0
                   THEN TargetMargin ELSE Val(margin(item)))

\* one PENDING row, carrying the second submit's fields and the live item's
\* cost, allowance and retail
C8_SecondWins(t, i, c) ==
    LET post == Parsed(Val(loc[t].post))
        row == changes'[c]
    IN  /\ PendingIn(changes', i) = {c}
        /\ row.new_case_cost = post.new_case_cost
        /\ row.new_allowance = post.new_allowance
        /\ row.effective_date = post.effective_date
        /\ row.suggested_retail = C8_Suggested(post, items[i])
        /\ row.approved_retail = IF IsNone(post.approved_retail)
                                 THEN C8_Suggested(post, items[i])
                                 ELSE post.approved_retail
        /\ row.notes = post.notes
        /\ row.prev_case_cost = items[i].case_cost
        /\ row.prev_allowance = items[i].allowance
        /\ row.prev_retail = items[i].retail_price
        /\ IsNone(row.prev_margin) <=> IsNone(margin(items[i]))

\* C8 (as claimed): after two submits for one item with no approval in
\* between there is one PENDING row, with the second submit's fields, and
\* its prev_* fields equal the item's live values, prev_margin included.
C8_SecondSubmitExact ==
    [][\A t \in Threads, i \in ItemIds, c \in ChangeIds :
          C8_SecondSubmit(t, i, c)
          => /\ C8_SecondWins(t, i, c)
             /\ ~IsNone(margin(items[i])) =>
                   Val(changes'[c].prev_margin) * Val(margin(items[i]))[2]
                      = 10000 * Val(margin(items[i]))[1]]_vars

\* C8 (amended): as claimed, except that prev_margin is the item's live
\* margin rounded to four decimal places (at most half a ten-thousandth
\* away from it).
C8_SecondSubmitRounded ==
    [][\A t \in Threads, i \in ItemIds, c \in ChangeIds :
          C8_SecondSubmit(t, i, c)
          => /\ C8_SecondWins(t, i, c)
             /\ ~IsNone(margin(items[i])) =>
                   LET q == Val(changes'[c].prev_margin)
                       m == Val(margin(items[i]))
                       d == q * m[2] - 10000 * m[1]
                   IN  2 * d <= m[2] /\ -2 * d <= m[2]]_vars

\* a row two submits wrote, the second after an apply had changed the item:
\* it carries the second form and the changed item's values
C8_Witness ==
    \E c \in 1..Len(changes) :
        /\ IdleAll
        /\ changes[c].status = "PENDING"
        /\ wf[c] = <<"submit", "submit">>
        /\ changes[c].notes = "hold"
        /\ changes[c].prev_case_cost = 1100
        /\ changes[c].prev_retail = Some(388)
        /\ changes[c].prev_margin = Some(2912)

\* ---------------------------------------------------------------------- C9
\* apply of worker t saves the item of change c, which a submit and then an
\* approve without override wrote
C9_ApplySaves(t, c) ==
    /\ pc[t] = "apply_item" /\ pc'[t] = "apply_status"
    /\ Val(loc[t].change).id = c
    /\ Len(wf[c]) >= 2
    /\ wf[c][Len(wf[c])] = "approve"
    /\ IsSubmit(wf[c][Len(wf[c]) - 1])

\* the item's retail is now the suggested retail, and the history row tells
\* whether that differs from the retail the item had
C9_SuggestedApplied(c) ==
    LET row == changes[c]
        i == row.item
    IN  /\ items'[i].retail_price = row.suggested_retail
        /\ HistoryOf(c) # {}
        /\ \A k \in HistoryOf(c) :
              history[k].change_type =
                 IF row.suggested_retail # items[i].retail_price
                 THEN "COST_AND_PRICE" ELSE "COST_ONLY"

\* C9 (as claimed): after submit, approve without override and apply the
\* item's retail is the suggested retail of the submit, and the history row
\* is COST_AND_PRICE when that differs from the item's prior retail and
\* COST_ONLY when it does not.
C9_SubmitApproveApply ==
    [][\A t \in Threads, c \in ChangeIds :
          C9_ApplySaves(t, c) => C9_SuggestedApplied(c)]_vars

\* C9 (amended): as claimed, for a submit that carried no retail of the
\* buyer and whose suggested retail is defined.
C9_PlainSubmitApproveApply ==
    [][\A t \in Threads, c \in ChangeIds :
          (/\ C9_ApplySaves(t, c)
           /\ wf[c][Len(wf[c]) - 1] = "submit"
           /\ ~IsNone(changes[c].suggested_retail))
          => C9_SuggestedApplied(c)]_vars

\* item 1 after submit (cost 11.00), approve and apply: retail 3.88 as
\* suggested, recorded as COST_AND_PRICE
C9_Witness ==
    \E t \in Threads, c \in 1..Len(changes) :
        /\ pc[t] = "apply_status"
        /\ Val(loc[t].change).id = c
        /\ wf[c] = <<"submit", "approve">>
        /\ changes[c].item = 1
        /\ changes[c].suggested_retail = Some(388)
        /\ items[1].retail_price = Some(388)
        /\ \E k \in HistoryOf(c) : /\ history[k].change_type = "COST_AND_PRICE"
                                   /\ history[k].old_retail = Some(348)

\* --------------------------------------------------------------------- C10
\* the changes an export is to send
C10_Eligible ==
    {c \in 1..Len(changes) :
        changes[c].status = "APPROVED" /\ ~(changes[c].effective_date > today)}

C10_Count(rows, c) == Cardinality({k \in 1..Len(rows) : rows[k].change = c})

\* C10: an export request with no APPROVED change due answers "empty" and
\* writes no log row; one that completes has emitted one row and written one
\* SENT log row for each APPROVED change due, and none for any other change.
C10_ExportExactlyDue ==
    [][\A t \in Threads :
          /\ (pc[t] = "idle" /\ (pc'[t] = "export_rows" \/ resp'[t][1] = "export"))
             => /\ (C10_Eligible = {}) <=> (resp'[t] = <<"export", 0, "empty">>)
                /\ (C10_Eligible # {}) <=> (pc'[t] = "export_rows")
                /\ exportLog' = exportLog
          /\ (pc[t] \in {"export_rows", "export_log"}
              /\ resp'[t] = <<"export", 0, "csv">>)
             => LET rows == loc[t].rows
                    new == SubSeq(exportLog', loc[t].logStart + 1, Len(exportLog'))
                IN  /\ \A c \in ChangeIds :
                          /\ C10_Count(rows, c) = IF c \in C10_Eligible THEN 1 ELSE 0
                          /\ C10_Count(new, c) = IF c \in C10_Eligible THEN 1 ELSE 0
                    /\ \A k \in 1..Len(new) : new[k].export_status = "SENT"
          /\ exportLog' # exportLog
             => pc[t] = "export_log" \/ pc'[t] = pc[t]]_vars

\* an export has sent the one change due and left the future-dated APPROVED
\* change alone
C10_Witness ==
    \E t \in Threads, c, d \in 1..Len(changes) :
        /\ resp[t] = <<"export", 0, "csv">>
        /\ changes[c].status = "APPROVED" /\ changes[c].effective_date <= today
        /\ changes[d].status = "APPROVED" /\ changes[d].effective_date > today
        /\ Len(exportLog) = 1
        /\ exportLog[1].change = c
        /\ exportLog[1].export_status = "SENT"

\* --------------------------------------------------------------------- C11
\* C11 (as claimed): for a unit cost u > 0 and a margin m in (0,1) the cents
\* of suggest_retail(u, m) end in 8, and suggest_retail(u, m) * (1 - m) >= u.
C11_EndsIn8NotBelowTheoretical ==
    (calc.fn = "suggest_retail" /\ calc.step >= 1)
    => LET u == calc.arg[1]
           ud == calc.arg[3]
           m == calc.arg[4]
           suggested == calc.out[1]
       IN  /\ ~IsNone(suggested)
           /\ Val(suggested) % 10 = 8
           /\ Val(suggested) * (m[2] - m[1]) * ud >= u * m[2]

\* --------------------------------------------------------------------- C12
\* C12 (as claimed): for a unit cost u > 0 and a margin m in (0,1),
\* calculate_margin(suggest_retail(u, m), u) >= m.
C12_MarginAtLeastTarget ==
    (calc.fn = "suggest_retail" /\ calc.step = 2)
    => LET m == calc.arg[4]
           got == calc.out[3]
       IN  /\ ~IsNone(got)
           /\ Val(got) * m[2] >= 10000 * m[1]

\* --------------------------------------------------------------------- C13
\* C13: for a fixed margin in (0,1) and unit costs 0 < u1 <= u2,
\* suggest_retail(u1, m) <= suggest_retail(u2, m).
C13_Monotonic ==
    (calc.fn = "suggest_retail" /\ calc.step >= 1)
    => /\ ~IsNone(calc.out[1]) /\ ~IsNone(calc.out[2])
       /\ Val(calc.out[1]) <= Val(calc.out[2])

\* two unit costs less than a cent apart, the whole cents of their
\* theoretical retails ending in 8 and in 9: the suggestions are a band apart
C13_Witness ==
    /\ calc.fn = "suggest_retail" /\ calc.step >= 1
    /\ calc.arg[3] = 3
    /\ calc.arg[1] + 1 = calc.arg[2]
    /\ Val(calc.out[1]) = 8
    /\ Val(calc.out[2]) = 18

\* --------------------------------------------------------------------- C16
\* C16: normalize_upc(normalize_upc(x)) = normalize_upc(x) for every raw
\* UPC x, None and the inputs that normalize to None included.
C16_NormalizeIdempotent ==
    (calc.fn = "normalize_upc" /\ calc.step = 2) => calc.out[2] = calc.out[1]

\* a raw UPC with a hyphen and a letter around its digits: both calls give
\* the digits
C16_Witness ==
    /\ calc.fn = "normalize_upc" /\ calc.step = 2
    /\ calc.arg[1] = Some(<<"-", "7", "A">>)
    /\ calc.out = <<Some(<<"7">>), Some(<<"7">>)>>

\* a raw UPC without a digit: both calls give None
C16_WitnessNone ==
    /\ calc.fn = "normalize_upc" /\ calc.step = 2
    /\ calc.arg[1] = Some(<<"-", " ">>)
    /\ calc.out = <<None, None>>

\* --------------------------------------------------------------------- C14
\* C14 (as claimed): ChangeHistory is append-only and immutable: no step of
\* submit, approve, reject, apply or the bulk import changes or removes a
\* row the table holds, so every row stays at its place with its content.
\* Violated: the bulk import deletes every ChangeHistory row
\* (import_dsd_master.py, line 66).
C14_HistoryAppendOnly ==
    [][\A k \in 1..Len(history) :
          /\ Len(history') >= k
          /\ history'[k] = history[k]]_vars

\* --------------------------------------------------------------------- C15
\* the submit worker t is about to save is one the claim calls invalid: the
\* item's case_pack is 0 or negative, or the cost or the allowance is not a
\* number
C15_BadSubmit(t) ==
    /\ pc[t] = "submit_save"
    /\ \/ Val(loc[t].item).case_pack <= 0
       \/ IsNone(CostOf(Val(loc[t].post)))
       \/ IsNone(AllowanceOf(Val(loc[t].post)))

\* C15 (as claimed): a submit for an item whose case_pack is <= 0, or with a
\* non-numeric cost or allowance, ends with the validation error reported
\* and no PendingCostChange created or updated.
\* Violated: a case_pack of 0 ends in an uncaught ZeroDivisionError (a server
\* error, not a validation error) and a negative case_pack saves the row.
C15_BadSubmitRejected ==
    [][\A t \in Threads :
          C15_BadSubmit(t) /\ SubmitSave(t)
          => /\ resp'[t] = <<"submit", Val(loc[t].itemId), "invalid">>
             /\ changes' = changes]_vars

\* --------------------------------------------------------------------- C17
\* the row a submit of worker t saves: the PENDING row it found, else a new one
SavedBy(t) ==
    IF IsNone(loc[t].change) THEN Len(changes) + 1 ELSE Val(loc[t].change).id

\* worker t saves a submit for an item with a positive case_pack
C17_Submits(t) ==
    /\ pc[t] = "submit_save"
    /\ Val(loc[t].item).case_pack > 0
    /\ SubmitSave(t)
    /\ resp'[t][3] = "ok"

\* the margin basis as claimed: the item's margin whenever it is defined, a
\* margin of exactly zero included, else the vendor's target margin
C17_Basis(item) ==
    IF ~IsNone(margin(item)) THEN Val(margin(item)) ELSE TargetMargin

\* C17 (as claimed): the suggested retail a submit stores is suggest_retail of
\* the new unit cost and the item's margin whenever that margin is defined
\* (zero included), and of the target margin only when it is undefined.
\* Violated: for an item whose margin is exactly zero the code takes the
\* target margin.
C17_MarginBasis ==
    [][\A t \in Threads :
          C17_Submits(t)
          => LET post == Parsed(Val(loc[t].post))
                 item == Val(loc[t].item)
             IN  changes'[SavedBy(t)].suggested_retail
                    = suggest_retail(post.new_case_cost - post.new_allowance,
                                     item.case_pack, C17_Basis(item))]_vars

\* --------------------------------------------------------------------- C18
\* worker t saves a submit
C18_Submits(t) ==
    /\ pc[t] = "submit_save"
    /\ SubmitSave(t)
    /\ resp'[t][3] = "ok"

\* C18: the row a submit has saved carries the buyer's retail of the form
\* when the form has one, else its own suggested_retail; its status is
\* PENDING and submitted_by is the user of the request.
C18_SubmittedRow ==
    [][\A t \in Threads :
          C18_Submits(t)
          => LET post == Val(loc[t].post)
                 row == changes'[SavedBy(t)]
             IN  /\ row.approved_retail
                      = IF ~IsNone(post.approved_retail)
                        THEN post.approved_retail ELSE row.suggested_retail
                 /\ row.status = "PENDING"
                 /\ row.submitted_by = User(t)]_vars

\* a submit with a buyer's retail other than the suggestion has been saved
C18_Witness ==
    \E c \in ChangeIds :
        /\ Exists(c) /\ IdleAll
        /\ wf[c] = <<"submitOv">>
        /\ changes[c].status = "PENDING"
        /\ ~IsNone(changes[c].suggested_retail)
        /\ changes[c].approved_retail # changes[c].suggested_retail

\* a submit without a buyer's retail has been saved
C18_WitnessSuggested ==
    \E c \in ChangeIds :
        /\ Exists(c) /\ IdleAll
        /\ wf[c] = <<"submit">>
        /\ ~IsNone(changes[c].suggested_retail)
        /\ changes[c].approved_retail = changes[c].suggested_retail

\* --------------------------------------------------------------------- C19
\* C19: an approve of a PENDING row leaves it APPROVED with approved_by the
\* user and approved_at the time of the request; approved_retail is the
\* override when the request has one (0.00 included), else the row's own
\* approved_retail when it has one, else its suggested_retail.
C19_Approve ==
    [][\A t \in Threads, ov \in OddOverrides :
          /\ pc[t] = "approve_post"
          /\ changes[Val(loc[t].change).id].status = "PENDING"
          /\ ApproveWith(t, ov)
          => LET old == changes[Val(loc[t].change).id]
                 new == changes'[Val(loc[t].change).id]
             IN  /\ new.status = "APPROVED"
                 /\ new.approved_by = Some(User(t))
                 /\ new.approved_at = Some(today)
                 /\ new.approved_retail
                      = IF ~IsNone(ov) THEN ov
                        ELSE IF ~IsNone(old.approved_retail) THEN old.approved_retail
                        ELSE old.suggested_retail]_vars

\* an approve with an override of 0.00 has replaced the retail of the submit
C19_Witness ==
    \E c \in ChangeIds :
        /\ Exists(c) /\ IdleAll
        /\ wf[c] = <<"submit", "approveOv">>
        /\ changes[c].status = "APPROVED"
        /\ ~IsNone(changes[c].suggested_retail)
        /\ changes[c].approved_retail = Some(0)

\* an approve without an override has kept the buyer's retail of the submit
C19_WitnessKept ==
    \E c \in ChangeIds :
        /\ Exists(c) /\ IdleAll
        /\ wf[c] = <<"submitOv", "approve">>
        /\ changes[c].status = "APPROVED"
        /\ changes[c].approved_retail = Some(399)
        /\ changes[c].suggested_retail # Some(399)

C21_WritesHistory(t) ==
    /\ pc[t] = "apply_history"
    /\ ApplyHistory(t)
    /\ Len(history') = Len(history) + 1

\* C21: the ChangeHistory row an apply writes has change_type COST_AND_PRICE
\* exactly when the change's approved_retail is defined and differs from the
\* item's retail_price at that moment, and COST_ONLY otherwise; it is never
\* PRICE_ONLY.
C21_ChangeType ==
    [][\A t \in Threads :
          C21_WritesHistory(t)
          => LET c == Val(loc[t].change).id
                 row == history'[Len(history')]
                 differs == /\ ~IsNone(changes[c].approved_retail)
                            /\ changes[c].approved_retail
                                  # items[changes[c].item].retail_price
             IN  /\ row.pending_cost_change_id = c
                 /\ row.change_type # "PRICE_ONLY"
                 /\ differs => row.change_type = "COST_AND_PRICE"
                 /\ ~differs => row.change_type = "COST_ONLY"]_vars

\* an apply has written a COST_AND_PRICE row
C21_Witness ==
    \E k \in 1..Len(history) :
        /\ history[k].change_type = "COST_AND_PRICE"
        /\ ~IsNone(history[k].new_retail)
        /\ history[k].new_retail # history[k].old_retail

\* an apply has written a COST_ONLY row for a retail equal to the item's
C21_WitnessSame ==
    \E k \in 1..Len(history) :
        /\ history[k].change_type = "COST_ONLY"
        /\ ~IsNone(history[k].new_retail)
        /\ history[k].new_retail = history[k].old_retail

\* an apply has written a COST_ONLY row for a change without a retail
C21_WitnessNone ==
    \E k \in 1..Len(history) :
        /\ history[k].change_type = "COST_ONLY"
        /\ IsNone(history[k].new_retail)

\* --------------------------------------------------------------------- C22
\* C22: the item.save() of an apply sets the item's case_cost and allowance
\* to the change's new values and last_cost_change to the day of the apply;
\* retail_price becomes approved_retail and last_price_change that day when
\* approved_retail is defined and differs from the item's retail, and both
\* stay as they are otherwise; case_pack and the other items are unchanged.
C22_ApplyFrame ==
    [][\A t \in Threads :
          pc[t] = "apply_item" /\ ApplyItem(t)
          => LET c == Val(loc[t].change).id
                 i == changes[c].item
                 old == items[i]
                 new == items'[i]
                 differs == /\ ~IsNone(changes[c].approved_retail)
                            /\ changes[c].approved_retail # old.retail_price
             IN  /\ new.case_cost = changes[c].new_case_cost
                 /\ new.allowance = changes[c].new_allowance
                 /\ new.last_cost_change = Some(today)
                 /\ differs => /\ new.retail_price = changes[c].approved_retail
                                /\ new.last_price_change = Some(today)
                 /\ ~differs => /\ new.retail_price = old.retail_price
                                 /\ new.last_price_change = old.last_price_change
                 /\ new.case_pack = old.case_pack
                 /\ \A j \in ItemIds : j # i => items'[j] = items[j]]_vars

\* an apply has changed the cost of an imported item and left its retail and
\* the date of its last price change as the import set them
C22_Witness ==
    \E c \in ChangeIds :
        /\ Exists(c) /\ IdleAll
        /\ changes[c].status = "APPLIED"
        /\ c \in itemWrittenBy
        /\ items[changes[c].item].case_cost = changes[c].new_case_cost
        /\ items[changes[c].item].case_cost # changes[c].prev_case_cost
        /\ items[changes[c].item].last_cost_change = Some(today)
        /\ items[changes[c].item].last_price_change = Some(1)
        /\ items[changes[c].item].retail_price = changes[c].prev_retail

\* an apply has changed the retail of an item
C22_WitnessRetail ==
    \E c \in ChangeIds :
        /\ Exists(c) /\ IdleAll
        /\ changes[c].status = "APPLIED"
        /\ c \in itemWrittenBy
        /\ items[changes[c].item].retail_price = changes[c].approved_retail
        /\ items[changes[c].item].retail_price # changes[c].prev_retail
        /\ items[changes[c].item].last_price_change = Some(today)

\* --------------------------------------------------------------------- C23
\* worker t takes a step of an export
C23_ExportStep(t) ==
    \/ pc[t] = "idle" /\ ExportStart(t)
    \/ pc[t] = "export_rows" /\ ExportRows(t)
    \/ pc[t] = "export_log" /\ ExportLog(t)

\* C23: no step of an export changes a PendingCostChange, an Item or the
\* ChangeHistory log; the rows BRDataExportLog holds stay as they are and
\* new ones are added after them.
C23_ExportFrame ==
    [][\A t \in Threads :
          C23_ExportStep(t)
          => /\ changes' = changes
             /\ items' = items
             /\ history' = history
             /\ Len(exportLog') >= Len(exportLog)
             /\ \A k \in 1..Len(exportLog) : exportLog'[k] = exportLog[k]]_vars

\* an export has written its log row and ended with the file
C23_Witness ==
    \E t \in Threads, c \in ChangeIds :
        /\ Exists(c)
        /\ resp[t] = <<"export", 0, "csv">>
        /\ Len(exportLog) > 0
        /\ exportLog[Len(exportLog)].change = c
        /\ changes[c].status = "APPROVED"

\* --------------------------------------------------------------------- C24
\* C24: an export does not look at the log: with n APPROVED changes due it
\* goes on to write, whatever the log holds, and when it completes the log
\* has n rows more than when it started, one more for each of the n changes;
\* so k runs over the same n changes leave n * k rows.
C24_ExportEveryRun ==
    [][\A t \in Threads :
          /\ (pc[t] = "idle" /\ ExportStart(t) /\ C10_Eligible # {})
             => pc'[t] = "export_rows"
          /\ (pc[t] \in {"export_rows", "export_log"}
              /\ resp'[t] = <<"export", 0, "csv">>)
             => LET before == SubSeq(exportLog', 1, loc[t].logStart)
                IN  /\ Len(exportLog') = loc[t].logStart + Cardinality(C10_Eligible)
                    /\ \A c \in C10_Eligible :
                          C10_Count(exportLog', c) = C10_Count(before, c) + 1]_vars

\* two exports have run over one change that stayed APPROVED and due: the
\* log holds two rows for it
C24_Witness ==
    \E c \in ChangeIds :
        /\ Exists(c) /\ IdleAll
        /\ resp[1] = <<"export", 0, "csv">>
        /\ changes[c].status = "APPROVED"
        /\ C10_Eligible = {c}
        /\ C10_Count(exportLog, c) = 2

\* --------------------------------------------------------------------- C25
\* C25: suggest_retail(unit_cost, margin) is undefined exactly when an input
\* is missing, or unit_cost <= 0, or margin <= 0, or margin >= 1; for every
\* other unit cost and margin it is a defined amount.
C25_UndefinedExactly ==
    (calc.fn = "suggest_retail_of" /\ calc.step = 1)
    => LET u == calc.arg[1]
           m == calc.arg[2]
           bad == \/ IsNone(u) \/ IsNone(m)
                  \/ Val(u)[1] <= 0
                  \/ Val(m)[1] <= 0
                  \/ Val(m)[1] >= Val(m)[2]
       IN  /\ bad <=> IsNone(calc.out[1])
           /\ ~bad => Val(calc.out[1]) > 0

\* a call with a unit cost above zero and a margin inside (0,1) has returned
\* an amount
C25_Witness ==
    /\ calc.fn = "suggest_retail_of" /\ calc.step = 1
    /\ ~IsNone(calc.arg[1]) /\ Val(calc.arg[1])[1] = 1
    /\ ~IsNone(calc.arg[2]) /\ Val(calc.arg[2])[1] = 9999
    /\ ~IsNone(calc.out[1])

\* a call with a margin of exactly 1 has returned None
C25_WitnessOne ==
    /\ calc.fn = "suggest_retail_of" /\ calc.step = 1
    /\ ~IsNone(calc.arg[1]) /\ Val(calc.arg[1])[1] = 275
    /\ ~IsNone(calc.arg[2]) /\ Val(calc.arg[2])[1] = Val(calc.arg[2])[2]
    /\ IsNone(calc.out[1])

\* a call without a margin has returned None
C25_WitnessMissing ==
    /\ calc.fn = "suggest_retail_of" /\ calc.step = 1
    /\ ~IsNone(calc.arg[1]) /\ Val(calc.arg[1])[1] = 275
    /\ IsNone(calc.arg[2])
    /\ IsNone(calc.out[1])

\* --------------------------------------------------------------------- C26
\* worker t saves a submit of new_case_cost 11.00 without an allowance for an
\* item of case_cost 10.00, allowance 0.00, case_pack 4 and retail 3.48
C26_Scenario(t) ==
    /\ pc[t] = "submit_save"
    /\ Val(loc[t].item).case_cost = 1000
    /\ Val(loc[t].item).allowance = 0
    /\ Val(loc[t].item).case_pack = 4
    /\ Val(loc[t].item).retail_price = Some(348)
    /\ Val(loc[t].post).new_case_cost = "11.00"
    /\ Val(loc[t].post).new_allowance = ""
    /\ SubmitSave(t)

\* C26: for that item and that form the submit saves a row whose new unit
\* cost is 2.75 and whose suggested_retail is 3.88.
C26_Suggests388 ==
    [][\A t \in Threads :
          C26_Scenario(t)
          => LET row == changes'[SavedBy(t)]
             IN  /\ resp'[t][3] = "ok"
                 /\ (row.new_case_cost - row.new_allowance)
                       = 275 * Val(loc[t].item).case_pack
                 /\ row.suggested_retail = Some(388)]_vars

\* the submit of the scenario has been saved
C26_Witness ==
    \E c \in ChangeIds :
        /\ Exists(c) /\ IdleAll
        /\ wf[c] = <<"submit">>
        /\ changes[c].prev_case_cost = 1000 /\ changes[c].prev_allowance = 0
        /\ changes[c].prev_retail = Some(348)
        /\ items[changes[c].item].case_pack = 4
        /\ changes[c].new_case_cost = 1100 /\ changes[c].new_allowance = 0
        /\ changes[c].suggested_retail = Some(388)

\* --------------------------------------------------------------------- C27
\* reading the value has raised: it is a quotient with divisor 0
C27_Raises(x) == ~IsNone(x) /\ Val(x)[2] = 0

\* the calculated properties of the stored item it
C27_ItemReads(it) ==
    /\ IsNone(unit_cost(it)) <=> it.case_pack <= 0
    /\ it.case_pack > 0
         => unit_cost(it) = Some(<<it.case_cost - it.allowance, it.case_pack>>)
    /\ ~(~IsNone(it.retail_price) /\ Val(it.retail_price) > 0
          /\ ~IsNone(unit_cost(it))) => IsNone(margin(it))
    /\ ~C27_Raises(unit_cost(it))
    /\ ~C27_Raises(margin(it))

\* the calculated properties of the stored change row, read with its item
C27_ChangeReads(row, it) ==
    /\ ~C27_Raises(new_unit_cost(row, it))
    /\ ~C27_Raises(cost_change_amount(row, it))
    /\ ~C27_Raises(cost_change_pct(row, it))
    /\ it.case_pack <= 0 => /\ IsNone(new_unit_cost(row, it))
                             /\ IsNone(cost_change_amount(row, it))
                             /\ IsNone(cost_change_pct(row, it))

\* C27: in every state an item's unit_cost is undefined exactly when its
\* case_pack is <= 0 and is (case_cost - allowance) / case_pack of the stored
\* fields otherwise; its margin is undefined unless retail_price > 0 and
\* unit_cost is defined; right after the item.save() of an apply the unit
\* cost is the one of the change's new values; and no read of these, nor of
\* a change's new_unit_cost, cost_change_amount and cost_change_pct, raises,
\* whatever case_pack is.
C27_DerivedReads ==
    /\ \A i \in DOMAIN items : C27_ItemReads(items[i])
    /\ \A c \in 1..Len(changes) :
          changes[c].item \in DOMAIN items
          => C27_ChangeReads(changes[c], items[changes[c].item])
    /\ \A t \in Threads :
          pc[t] = "apply_status"
          => LET row == changes[Val(loc[t].change).id]
                 it == items[row.item]
             IN  /\ unit_cost(it) = new_unit_cost(row, it)
                 /\ it.case_pack > 0
                      => unit_cost(it) = Some(<<row.new_case_cost - row.new_allowance,
                                                it.case_pack>>)

\* an apply has just saved an item of case_pack 4 with a new cost: its unit
\* cost is the new one
C27_Witness ==
    \E t \in Threads :
        /\ pc[t] = "apply_status"
        /\ LET row == changes[Val(loc[t].change).id]
               it == items[row.item]
           IN  /\ it.case_pack = 4
               /\ row.new_case_cost # row.prev_case_cost
               /\ unit_cost(it) = Some(<<row.new_case_cost - row.new_allowance, 4>>)
               /\ ~IsNone(cost_change_pct(row, [it EXCEPT !.case_cost = row.prev_case_cost]))

\* a change is stored for an item whose case_pack is 0 or negative: its
\* calculated properties are undefined
C27_WitnessNoPack ==
    \E c \in ChangeIds :
        /\ Exists(c)
        /\ changes[c].item \in DOMAIN items
        /\ items[changes[c].item].case_pack <= 0
        /\ IsNone(unit_cost(items[changes[c].item]))
        /\ IsNone(cost_change_pct(changes[c], items[changes[c].item]))

\* --------------------------------------------------------------------- C28
\* the rows of PendingCostChange that belong to item i
C28_ChangesOf(i) ==
    {c \in 1..Len(changes) : changes[c].item = i /\ changes[c].status # "DELETED"}

\* C28: deleting a Vendor an Item or a LinkGroup refers to is refused and
\* changes no table; deleting a LinkGroup keeps every Item, those of the
\* group with no link group and the others as they were; deleting an Item
\* deletes every PendingCostChange of the item, no other PendingCostChange,
\* and no row of ChangeHistory or BRDataExportLog.
C28_DeletionOwnership ==
    [][/\ \A v \in VendorCodes :
             /\ DeleteVendor(1, v)
             /\ \/ \E i \in DOMAIN items : items[i].vendor = v
                \/ \E g \in DOMAIN org.link_groups : org.link_groups[g] = v
             => /\ resp'[1] = <<"delete_vendor", 0, "restricted">>
                /\ org' = org
                /\ db' = db
       /\ \A g \in LinkGroupIds :
             DeleteLinkGroup(1, g)
             => /\ g \notin DOMAIN org'.link_groups
                /\ DOMAIN items' = DOMAIN items
                /\ \A i \in DOMAIN items :
                      /\ items'[i].link_group # Some(g)
                      /\ items[i].link_group = Some(g)
                         => items'[i] = [items[i] EXCEPT !.link_group = None]
                      /\ items[i].link_group # Some(g) => items'[i] = items[i]
       /\ \A i \in ItemIds :
             DeleteItem(1, i)
             => /\ i \notin DOMAIN items'
                /\ Len(changes') = Len(changes)
                /\ \A c \in 1..Len(changes) :
                      IF changes[c].item = i
                      THEN changes'[c].status = "DELETED"
                      ELSE changes'[c] = changes[c]
                /\ history' = history
                /\ exportLog' = exportLog]_vars

\* an item was deleted with one of its changes, and ChangeHistory still holds
\* the row written when that change was applied
C28_Witness ==
    /\ \E i \in ItemIds :
          /\ resp[1] = <<"delete_item", i, "ok">>
          /\ i \notin DOMAIN items
          /\ \E c \in 1..Len(changes) :
                /\ changes[c].item = i
                /\ changes[c].status = "DELETED"
                /\ HistoryOf(c) # {}

\* an item was deleted, and BRDataExportLog still holds a row of one of its
\* changes
C28_WitnessLog ==
    \E i \in ItemIds :
       /\ resp[1] = <<"delete_item", i, "ok">>
       /\ \E k \in 1..Len(exportLog) : exportLog[k].item = i

\* the deletion of a vendor was refused
C28_WitnessRefused ==
    /\ resp[1] = <<"delete_vendor", 0, "restricted">>
    /\ org.vendors = VendorCodes

\* the deletion of a vendor nothing refers to went through
C28_WitnessVendor ==
    /\ resp[1] = <<"delete_vendor", 0, "ok">>
    /\ org.vendors # VendorCodes

\* a link group was deleted and an item that was in it is in none
C28_WitnessLinkGroup ==
    /\ resp[1] = <<"delete_link_group", 1, "ok">>
    /\ 1 \in DOMAIN items
    /\ items[1].link_group = None

\* --------------------------------------------------------------------- C29
\* C29: in every state the bulk import and the workflow reach from a
\* database without rows, every Item has case_pack >= 1.
C29_CasePackPositive ==
    \A i \in DOMAIN items : items[i].case_pack >= 1

\* the step of worker t is one of a submit, approve, reject, apply or export
\* request
C29_WorkflowStep(t) ==
    \/ pc[t] = "idle" /\ pc'[t] \notin {"idle", "import_history"}
    \/ pc[t] \notin {"idle", "import_history", "import_items", "import_groups",
                     "import_vendors", "import_load"}
    \/ pc[t] = "idle" /\ pc'[t] = "idle" /\ budget' # budget

\* C29 (its second half): no step of a submit, approve, reject, apply or
\* export request changes the case_pack of an item.
C29_CasePackFrame ==
    [][\A t \in Threads :
          C29_WorkflowStep(t)
          => /\ DOMAIN items' = DOMAIN items
             /\ \A i \in DOMAIN items : items'[i].case_pack = items[i].case_pack]_vars

\* an item the import made of a row whose "Case Pack" cell is below 1 or
\* holds no number has case_pack 1, and a change was applied to it since
C29_Witness ==
    /\ 1 \in DOMAIN items
    /\ items[1].case_pack = 1
    /\ \E c \in 1..Len(changes) :
          /\ changes[c].item = 1
          /\ changes[c].status = "APPLIED"
          /\ HistoryOf(c) # {}

\* --------------------------------------------------------------------- C30
\* C30 (as claimed): under any interleaving of apply requests, ChangeHistory
\* holds at most one record with a given pending_cost_change_id.
C30_AppliedAtMostOnce ==
    \A c \in ChangeIds : Cardinality(HistoryOf(c)) <= 1

\* --------------------------------------------------------------------- C31
\* records k and l of ChangeHistory are consecutive records of one item
C31_Consecutive(k, l) ==
    /\ k < l
    /\ history[k].item = history[l].item
    /\ \A m \in (k + 1)..(l - 1) : history[m].item # history[k].item

\* C31: of two consecutive ChangeHistory records of one item, the later one
\* holds as old_case_cost and old_allowance the new values of the earlier
\* one, and as old_retail the earlier new_retail when the earlier apply
\* changed the retail and the earlier old_retail when it did not.
C31_AuditChain ==
    \A k, l \in 1..Len(history) :
       C31_Consecutive(k, l)
       => /\ history[l].old_case_cost = history[k].new_case_cost
          /\ history[l].old_allowance = history[k].new_allowance
          /\ history[l].old_retail =
                IF history[k].change_type = "COST_AND_PRICE"
                THEN history[k].new_retail ELSE history[k].old_retail

\* two changes of item 1 are applied, with different costs, and the one
\* applied later was submitted before the earlier apply: its snapshot is not
\* what the item held when it was applied
C31_Witness ==
    /\ Len(history) = 2
    /\ history[1].item = 1
    /\ history[2].item = 1
    /\ history[1].new_case_cost # history[2].new_case_cost
    /\ \A c \in 1..Len(changes) : changes[c].status = "APPLIED"
    /\ changes[history[2].pending_cost_change_id].prev_case_cost
          # history[2].old_case_cost

\* the earlier of two applies of item 1 left the retail price as it was
C31_WitnessCostOnly ==
    /\ Len(history) = 2
    /\ history[1].item = 1
    /\ history[2].item = 1
    /\ history[1].change_type = "COST_ONLY"

\* --------------------------------------------------------------------- C32
\* C32 (as claimed): every PendingCostChange in status APPROVED has a defined
\* approved_retail, and every row an export emits has a defined new retail.
C32_ApprovedHasRetail ==
    /\ \A c \in 1..Len(changes) :
          changes[c].status = "APPROVED" => ~IsNone(changes[c].approved_retail)
    /\ \A t \in Threads :
          \A k \in 1..Len(loc[t].rows) : ~IsNone(loc[t].rows[k].new_retail)

\* the second half of C32 alone: every row an export emits has a defined new
\* retail
C32_ExportRowsHaveRetail ==
    \A t \in Threads :
       \A k \in 1..Len(loc[t].rows) : ~IsNone(loc[t].rows[k].new_retail)

\* --------------------------------------------------------------------- C33
\* an apply has marked APPLIED one of the changes whose rows the export run
\* of worker t emitted
C33_ApplyInterleaved(t) ==
    \E k \in 1..Len(loc[t].rows) : changes[loc[t].rows[k].change].status = "APPLIED"

\* C33 (as claimed): an export run that has emitted rows, one of them of a
\* change an apply has marked APPLIED since, ends only by writing the log
\* entry of the last row, having written one for each row before it.
C33_LogsEveryRow ==
    [][\A t \in Threads :
          /\ pc[t] = "export_log"
          /\ pc'[t] = "idle"
          /\ C33_ApplyInterleaved(t)
          => /\ loc[t].idx = Len(loc[t].rows)
             /\ Len(exportLog') = Len(exportLog) + 1]_vars

\* --------------------------------------------------------------------- C34
\* the snapshot columns of a PendingCostChange row
C34_Snapshot(row) ==
    <<row.prev_case_cost, row.prev_allowance, row.prev_retail, row.prev_margin>>

\* the step is the save of a submit, and the row it writes is c
C34_SubmitSaves(c) ==
    \E t \in Threads :
       /\ pc[t] = "submit_save"
       /\ SubmitSave(t)
       /\ resp'[t][3] = "ok"
       /\ c = SavedBy(t)

\* the cost, allowance and retail of the snapshot are those of the item
C34_TakenFrom(row, item) ==
    /\ row.prev_case_cost = item.case_cost
    /\ row.prev_allowance = item.allowance
    /\ row.prev_retail = item.retail_price
    /\ IsNone(row.prev_margin) <=> IsNone(margin(item))

\* C34 (as claimed): the save of a submit sets the snapshot of the row it
\* writes to the item's cost, allowance, retail and margin; every other step
\* (of an approve, a reject, an apply of this or another change, an export)
\* leaves the snapshot of every row as it is.
C34_SnapshotExact ==
    [][\A c \in 1..Len(changes') :
          IF C34_SubmitSaves(c)
          THEN LET item == items[changes'[c].item] IN
               /\ C34_TakenFrom(changes'[c], item)
               /\ ~IsNone(margin(item)) =>
                     Val(changes'[c].prev_margin) * Val(margin(item))[2]
                        = 10000 * Val(margin(item))[1]
          ELSE /\ c <= Len(changes)
               /\ C34_Snapshot(changes'[c]) = C34_Snapshot(changes[c])]_vars

\* C34 (amended): as claimed, except that the prev_margin a submit stores is
\* the item's margin rounded to four decimal places (at most half a
\* ten-thousandth away from it).
C34_SnapshotRounded ==
    [][\A c \in 1..Len(changes') :
          IF C34_SubmitSaves(c)
          THEN LET item == items[changes'[c].item] IN
               /\ C34_TakenFrom(changes'[c], item)
               /\ ~IsNone(margin(item)) =>
                     LET q == Val(changes'[c].prev_margin)
                         m == Val(margin(item))
                         d == q * m[2] - 10000 * m[1]
                     IN  2 * d <= m[2] /\ -2 * d <= m[2]
          ELSE /\ c <= Len(changes)
               /\ C34_Snapshot(changes'[c]) = C34_Snapshot(changes[c])]_vars

\* a PENDING change of an item still holds the item's cost at its submit,
\* after the apply of another change of the item has changed that cost
C34_Witness ==
    \E c, d \in 1..Len(changes) :
       /\ IdleAll
       /\ changes[c].item = changes[d].item
       /\ changes[c].status = "PENDING"
       /\ wf[c] = <<"submit">>
       /\ changes[d].status = "APPLIED"
       /\ changes[c].prev_case_cost = 1000
       /\ items[changes[c].item].case_cost = 1100

\* an applied change still holds the snapshot its submit took
C34_WitnessApplied ==
    \E c \in 1..Len(changes) :
       /\ IdleAll
       /\ wf[c] = <<"submit", "approve", "apply">>
       /\ changes[c].prev_case_cost = 1000
       /\ changes[c].prev_retail # items[changes[c].item].retail_price
       /\ items[changes[c].item].case_cost = 1100

\* --------------------------------------------------------------------- C35
\* the whole cents of the theoretical retail of the k-th unit cost of the
\* call
C35_Cents(k) == theoretical_cents(calc.arg[k], calc.arg[3], calc.arg[4])

C35_WitnessExact ==
    /\ calc.fn = "suggest_retail" /\ calc.step >= 1
    /\ C35_Cents(1) = 18
    /\ calc.out[1] = Some(18)

====
